---- MODULE Spec2Model ----
(***************************************************************************)
(* Image acquisition pipeline of tw-dataset-generation:                    *)
(*   google_search_image_scraper.py   (Google Custom Search, "cse")        *)
(*   Data_F1000/flickr_image_scraper.py   (Flickr, "flickr")               *)
(*   image_scraper.py   (Google Maps Places, "maps")                       *)
(* Three state machines share this module:                                 *)
(*   FetchSpec   one call of download_image of each scraper                *)
(*   SearchSpec  one call of GoogleImageSearcher.search_images             *)
(*   Spec        the per-attraction orchestrator loops, over several runs  *)
(***************************************************************************)
EXTENDS Integers, Sequences, FiniteSets, TLC

(* ----------------------------- bounds ---------------------------------- *)
\* Target number of images per attraction, scaled down for checking
\* (the source uses 100 for Google Custom Search, 10 for Flickr and Maps).
TargetCount == 2
\* Longest candidate list a provider search returns.
MaxCands == 2
\* Number of runs of an orchestrator over the same output root.
MaxRuns == 2
\* Largest number of items a provider puts in one result page.
MaxPageItems == 12
\* Largest number of files in one attraction directory handed to
\* split_train_val.
MaxFiles == 3
\* Largest number of rows of the frame handed to filter_top_attractions,
\* and largest search count of a row.
MaxRows == 4
MaxCount == 2
\* Largest number of rows of the table handed to search_attractions.
MaxTableRows == 2
\* Largest number of rows of the table handed to download_attraction_json.
MaxJsonRows == 3

(* ------------------------ program constants ---------------------------- *)
IMAGES_PER_ATTRACTION == 100
ImagesPerAttractionInTest == 2
MAX_RESULTS_PER_REQUEST == 10
MAX_START_INDEX == 91
MIN_IMAGE_BYTES == 10000
MAX_RETRIES == 3

Scrapers == {"cse", "flickr", "maps"}
Attractions == 1..2

Min(x, y) == IF x <= y THEN x ELSE y

(***************************************************************************)
(* Files.  A destination path holds no file, or a file of some size that   *)
(* is either an intact image or a truncated / corrupt artifact.            *)
(***************************************************************************)
NoFile == [exists |-> FALSE, size |-> 0, intact |-> FALSE]
File(n, ok) == [exists |-> TRUE, size |-> n, intact |-> ok]

Sizes == {0, 5000, 9999, 10000, 20000}

(***************************************************************************)
(* What the outside world does during one download_image call.             *)
(*   http     "ok" | "error": requests.get / raise_for_status raises       *)
(*   ctype    "image" | "other": the declared content type                 *)
(*   clen     declared content-length, -1 when the header is absent        *)
(*   body     number of payload bytes actually delivered                   *)
(*   stream   "ok" | "reset": the connection drops while the body is read  *)
(*   decode   PIL can open the payload                                     *)
(*   save     "ok" | "error": img.save / file write raises                 *)
(*   left     a failed save leaves the partly written file behind          *)
(*            (PIL version and error dependent)                            *)
(*   jpeg     size of the re-encoded JPEG file                             *)
(*   rm       "ok" | "error": os.remove succeeds or raises                 *)
(***************************************************************************)
\* (an empty payload is never a decodable image)
Responses ==
    {r \in [http : {"ok", "error"}, ctype : {"image", "other"},
            clen : {-1, 5000, 20000}, body : Sizes, stream : {"ok", "reset"},
            decode : BOOLEAN, save : {"ok", "error"}, left : BOOLEAN,
            jpeg : {0, 5000, 20000}, rm : {"ok", "error"}] :
        r.decode => r.body > 0}

Result(r, f) == [ret |-> r, file |-> f]

\* os.path.exists(save_path) followed by os.remove(save_path), errors of the
\* removal swallowed (google_search_image_scraper.py, lines 154-158).
RemoveQuietly(resp, f) ==
    IF f.exists /\ resp.rm = "ok" THEN NoFile ELSE f

\* A truncated or corrupt artifact left by an interrupted write.
Partial == File(5000, FALSE)

\* The file at save_path after a write that raised: `left` says whether the
\* file had been opened for writing and stays behind (open(..., 'wb') and
\* PIL's img.save truncate or create it; whether PIL removes what it created
\* depends on its version and on the error).
SaveLeftover(resp, before) == IF resp.left THEN Partial ELSE before

(* google_search_image_scraper.download_image *)
\* inner except (lines 138-140): logs and returns False, no cleanup.
CseInnerExcept(resp, before) == Result("False", SaveLeftover(resp, before))

\* lines 142-150: the saved file must exist and be non-empty.
CseFinalCheck(resp) ==
    IF resp.jpeg > 0
    THEN Result("True", File(resp.jpeg, TRUE))
    ELSE Result("False", RemoveQuietly(resp, File(resp.jpeg, FALSE)))

CseContentTypeOk(resp) == resp.ctype = "image"

cse_download_image(resp, before) ==
    IF resp.http = "error" THEN Result("False", RemoveQuietly(resp, before))
    ELSE IF ~CseContentTypeOk(resp) THEN Result("False", before)
    ELSE IF resp.stream = "reset" THEN Result("False", RemoveQuietly(resp, before))
    ELSE IF ~resp.decode THEN Result("False", before)
    ELSE IF resp.save = "error" THEN CseInnerExcept(resp, before)
    ELSE CseFinalCheck(resp)

(* FlickrImageScraper.download_image *)
\* except handler: os.remove is not guarded, so its failure propagates.
FlickrExcept(resp, f) ==
    IF ~f.exists THEN Result("False", f)
    ELSE IF resp.rm = "ok" THEN Result("False", NoFile)
    ELSE Result("raise", f)

FlickrSizeCheck(resp) ==
    IF resp.body < MIN_IMAGE_BYTES
    THEN (IF resp.rm = "ok" THEN Result("False", NoFile)
          ELSE FlickrExcept(resp, File(resp.body, TRUE)))
    ELSE Result("True", File(resp.body, TRUE))

flickr_download_image(resp, before) ==
    IF resp.http = "error" THEN FlickrExcept(resp, before)
    ELSE IF resp.ctype # "image" THEN Result("False", before)
    ELSE IF resp.clen # -1 /\ resp.clen < MIN_IMAGE_BYTES THEN Result("False", before)
    ELSE IF resp.save = "error" THEN FlickrExcept(resp, SaveLeftover(resp, before))
    ELSE IF resp.stream = "reset" THEN FlickrExcept(resp, Partial)
    ELSE FlickrSizeCheck(resp)

(* image_scraper.download_image *)
maps_download_image(resp, before) ==
    IF resp.http = "error" THEN Result("False", before)
    ELSE IF resp.save = "error" THEN Result("False", SaveLeftover(resp, before))
    ELSE IF resp.stream = "reset" THEN Result("False", Partial)
    ELSE Result("True", File(resp.body, TRUE))

download_image(s, resp, before) ==
    CASE s = "cse" -> cse_download_image(resp, before)
      [] s = "flickr" -> flickr_download_image(resp, before)
      [] s = "maps" -> maps_download_image(resp, before)

\* The call reaches the statement that writes the file (img.save, or
\* open(save_path, 'wb') and file.write) and that statement raises OSError.
write_fails(s, resp) ==
    CASE s = "cse" -> /\ resp.http = "ok" /\ CseContentTypeOk(resp)
                      /\ resp.stream = "ok" /\ resp.decode /\ resp.save = "error"
      [] s = "flickr" -> /\ resp.http = "ok" /\ resp.ctype = "image"
                         /\ ~(resp.clen # -1 /\ resp.clen < MIN_IMAGE_BYTES)
                         /\ resp.save = "error"
      [] s = "maps" -> resp.http = "ok" /\ resp.save = "error"

(***************************************************************************)
(* State.                                                                  *)
(***************************************************************************)
VARIABLES
    \* one download_image call (FetchSpec)
    f_scraper, f_resp, f_before, f_pc, f_result,
    \* one search_images call (SearchSpec)
    num_images, url_count, start_index, s_pc, req_start, req_num,
    n_requests, stop,
    \* the orchestrators (Spec)
    scraper, stub, pattern, run, ends, pc, a, dir, existing_images,
    image_urls, i, downloaded_count, success_count, error_count,
    name_bound, net, stored, status, credentials, save_failed,
    \* reasoning/attraction_generation.py (GenSpec)
    g_pc, g_run, rows, folder, result_jsonl, processed_images, g_image_files,
    \* split_train_val.py (SplitSpec)
    sp_pc, source_files, glob_ignores_case, train_ratio, sp_image_files,
    train_count, sp_i, train_files, val_files,
    \* rename_attraction_images.py (RenameSpec)
    rn_pc, rn_folder, rn_image_files, rn_index, renamed_count, rn_error,
    rn_call, rn_names, rn_prev,
    \* google_search_count_api.filter_top_attractions (FilterSpec)
    ft_pc, df, top_n, top_df,
    \* google_search_count_api.py: search_attractions, get_search_count (CountSpec)
    sa_pc, sa_call, sa_idx, attractions_df, entry_df, lookups, json_error_is_request_exception, c_pc, attempt, c_log, c_result,
    \* google_search_image_scraper.py: requests and sleeps of a run (RateSpec)
    rl_pc, rl_a, rl_files, rl_existing, rl_urls, rl_start, rl_i, rl_downloaded, rl_last,
    \* json_downloader.py (JsonSpec)
    jd_pc, jd_run, jd_pos, unique_ids, jd_files, jd_requests, jd_before, jd_resp,
    \* split_train_val.py: result of a call (OutcomeSpec)
    so_pc, source_exists, train_exists, val_exists, attraction_dirs, made, so_k, total_attractions, total_train_images, total_val_images, so_ret

fetchVars == <<f_scraper, f_resp, f_before, f_pc, f_result>>
searchVars == <<num_images, url_count, start_index, s_pc, req_start, req_num,
                n_requests, stop>>
orchVars == <<scraper, stub, pattern, run, ends, pc, a, dir, existing_images,
              image_urls, i, downloaded_count, success_count, error_count,
              name_bound, net, stored, status, credentials, save_failed>>
genVars == <<g_pc, g_run, rows, folder, result_jsonl, processed_images,
             g_image_files>>
splitVars == <<sp_pc, source_files, glob_ignores_case, train_ratio,
               sp_image_files, train_count, sp_i, train_files, val_files>>
renameVars == <<rn_pc, rn_folder, rn_image_files, rn_index, renamed_count,
                rn_error, rn_call, rn_names, rn_prev>>
filterVars == <<ft_pc, df, top_n, top_df>>
countVars == <<sa_pc, sa_call, sa_idx, attractions_df, entry_df, lookups, json_error_is_request_exception, c_pc, attempt, c_log, c_result>>
rateVars == <<rl_pc, rl_a, rl_files, rl_existing, rl_urls, rl_start, rl_i, rl_downloaded, rl_last>>
jsonVars == <<jd_pc, jd_run, jd_pos, unique_ids, jd_files, jd_requests, jd_before, jd_resp>>
outcomeVars == <<so_pc, source_exists, train_exists, val_exists, attraction_dirs, made, so_k, total_attractions, total_train_images, total_val_images, so_ret>>
toolVars == <<genVars, splitVars, renameVars, filterVars, countVars, rateVars, jsonVars, outcomeVars>>
vars == <<fetchVars, searchVars, orchVars, toolVars>>

\* The parts of the state a specification does not use stay at these values.
FetchIdle ==
    /\ f_scraper = "cse" /\ f_resp = CHOOSE r \in Responses : TRUE
    /\ f_before = NoFile /\ f_pc = "unused" /\ f_result = Result("False", NoFile)
SearchIdle ==
    /\ num_images = 0 /\ url_count = 0 /\ start_index = 1 /\ s_pc = "unused"
    /\ req_start = 0 /\ req_num = 0 /\ n_requests = 0 /\ stop = "none"
OrchIdle ==
    /\ scraper = "cse" /\ stub = "free" /\ pattern = <<>> /\ run = 0
    /\ ends = <<>> /\ pc = "unused" /\ a = 1
    /\ dir = [x \in Attractions |-> {}] /\ existing_images = 0
    /\ image_urls = <<>> /\ i = 0 /\ downloaded_count = 0
    /\ success_count = 0 /\ error_count = 0 /\ name_bound = FALSE
    /\ net = [search |-> 0, download |-> 0] /\ stored = {}
    /\ status = [x \in Attractions |-> "pending"]
    /\ credentials = TRUE /\ save_failed = FALSE
GenIdle ==
    /\ g_pc = "unused" /\ g_run = 0 /\ rows = 1 /\ folder = {}
    /\ result_jsonl = <<>>
    /\ processed_images = {} /\ g_image_files = <<>>
SplitIdle ==
    /\ sp_pc = "unused" /\ source_files = {} /\ glob_ignores_case = FALSE
    /\ train_ratio = 9 /\ sp_image_files = <<>> /\ train_count = 0
    /\ sp_i = 0 /\ train_files = {} /\ val_files = {}
RenameIdle ==
    /\ rn_pc = "unused" /\ rn_folder = {} /\ rn_image_files = <<>>
    /\ rn_index = 0 /\ renamed_count = 0 /\ rn_error = FALSE
    /\ rn_call = 0 /\ rn_names = <<>> /\ rn_prev = {}
FilterIdle == ft_pc = "unused" /\ df = <<>> /\ top_n = 0 /\ top_df = <<>>
CountIdle ==
    /\ sa_pc = "unused" /\ sa_call = 0 /\ sa_idx = 0 /\ attractions_df = <<>>
    /\ entry_df = <<>> /\ lookups = <<>> /\ json_error_is_request_exception = FALSE
    /\ c_pc = "unused" /\ attempt = 0 /\ c_log = <<>> /\ c_result = 0
RateIdle ==
    /\ rl_pc = "unused" /\ rl_a = 0 /\ rl_files = <<>> /\ rl_existing = 0
    /\ rl_urls = 0 /\ rl_start = 0 /\ rl_i = 0 /\ rl_downloaded = 0
    /\ rl_last = "none"
JsonIdle ==
    /\ jd_pc = "unused" /\ jd_run = 0 /\ jd_pos = 0 /\ unique_ids = <<>>
    /\ jd_files = <<>> /\ jd_requests = <<>> /\ jd_before = {} /\ jd_resp = "none"
OutcomeIdle ==
    /\ so_pc = "unused" /\ source_exists = FALSE /\ train_exists = FALSE
    /\ val_exists = FALSE /\ attraction_dirs = <<>> /\ made = {} /\ so_k = 0
    /\ total_attractions = 0 /\ total_train_images = 0
    /\ total_val_images = 0 /\ so_ret = "none"
ToolsIdle == GenIdle /\ SplitIdle /\ RenameIdle /\ FilterIdle /\ CountIdle /\ RateIdle /\ JsonIdle /\ OutcomeIdle

(***************************************************************************)
(* FetchSpec: download_image called once, on any response, with the        *)
(* destination path absent or already holding a file.                      *)
(***************************************************************************)
FetchInit ==
    /\ f_scraper \in Scrapers
    /\ f_resp \in Responses
    /\ f_before \in {NoFile, File(20000, TRUE)}
    /\ f_pc = "call"
    /\ f_result = Result("False", NoFile)
    /\ SearchIdle /\ OrchIdle /\ ToolsIdle

FetchCall ==
    /\ f_pc = "call"
    /\ f_result' = download_image(f_scraper, f_resp, f_before)
    /\ f_pc' = "returned"
    /\ UNCHANGED <<f_scraper, f_resp, f_before, searchVars, orchVars, toolVars>>

FetchNext == FetchCall

FetchSpec == FetchInit /\ [][FetchNext]_vars

(***************************************************************************)
(* SearchSpec: one call of GoogleImageSearcher.search_images.              *)
(*                                                                         *)
(* url_count is len(image_urls).  A page answer is a request failure, a    *)
(* parsing failure, or n items of which v carry a link that passes         *)
(* is_valid_image_url (the provider need not honour the `num` it was       *)
(* asked for).  stop records the break that ended the loop, "none" when    *)
(* the while condition did.                                                *)
(***************************************************************************)
NumImagesChoices == {1, 15, IMAGES_PER_ATTRACTION}

\* line 185: the while condition
search_loop_low_ceiling(count, start, num) ==
    count < num /\ start <= MAX_START_INDEX - MAX_RESULTS_PER_REQUEST
search_loop_condition(count, start, num) ==
    count < num /\ start <= MAX_START_INDEX

\* line 191: the 'num' parameter of a page request
request_num(num, count) == Min(MAX_RESULTS_PER_REQUEST, num - count)

\* line 217: the next page's offset
next_start_by_one(start) == start + 1
next_start(start) == start + MAX_RESULTS_PER_REQUEST

SearchInit ==
    /\ num_images \in NumImagesChoices
    /\ url_count = 0 /\ start_index = 1 /\ s_pc = "loop"
    /\ req_start = 0 /\ req_num = 0 /\ n_requests = 0 /\ stop = "none"
    /\ FetchIdle /\ OrchIdle /\ ToolsIdle

\* lines 185-203: the loop is entered and the page request sent
SendRequest ==
    /\ s_pc = "loop"
    /\ search_loop_condition(url_count, start_index, num_images)
    /\ req_start' = start_index
    /\ req_num' = request_num(num_images, url_count)
    /\ n_requests' = n_requests + 1
    /\ s_pc' = "waiting"
    /\ UNCHANGED <<num_images, url_count, start_index, stop, fetchVars, orchVars, toolVars>>

\* lines 205-218: the page is parsed, its valid links appended
ReceivePage ==
    /\ s_pc = "waiting"
    /\ \E n \in 0..MaxPageItems : \E v \in 0..n :
        IF n = 0
        THEN /\ stop' = "empty" /\ s_pc' = "returned"
             /\ UNCHANGED <<url_count, start_index>>
        ELSE /\ url_count' = url_count + v
             /\ start_index' = next_start(start_index)
             /\ s_pc' = "loop"
             /\ UNCHANGED stop
    /\ UNCHANGED <<num_images, req_start, req_num, n_requests, fetchVars, orchVars, toolVars>>

\* lines 220-222 with `continue` in place of `break`
RequestFailsAndRetries ==
    /\ s_pc = "waiting"
    /\ stop' = "request_error" /\ s_pc' = "loop"
    /\ UNCHANGED <<num_images, url_count, start_index, req_start, req_num,
                   n_requests, fetchVars, orchVars, toolVars>>

\* lines 220-222: requests.exceptions.RequestException
RequestFails ==
    /\ s_pc = "waiting"
    /\ stop' = "request_error" /\ s_pc' = "returned"
    /\ UNCHANGED <<num_images, url_count, start_index, req_start, req_num,
                   n_requests, fetchVars, orchVars, toolVars>>

\* lines 223-226: KeyError, ValueError, JSONDecodeError
ParseFails ==
    /\ s_pc = "waiting"
    /\ stop' = "parse_error" /\ s_pc' = "returned"
    /\ UNCHANGED <<num_images, url_count, start_index, req_start, req_num,
                   n_requests, fetchVars, orchVars, toolVars>>

\* lines 185, 228-229: the while condition fails, the list is returned
LoopExit ==
    /\ s_pc = "loop"
    /\ ~search_loop_condition(url_count, start_index, num_images)
    /\ s_pc' = "returned"
    /\ UNCHANGED <<num_images, url_count, start_index, req_start, req_num,
                   n_requests, stop, fetchVars, orchVars, toolVars>>

SearchNext == SendRequest \/ ReceivePage \/ RequestFails \/ ParseFails \/ LoopExit

\* The call runs on one thread and every request has a timeout: a step
\* that can be taken is taken.
SearchSpec == SearchInit /\ [][SearchNext]_vars /\ WF_vars(SearchNext)

(***************************************************************************)
(* Spec: the orchestrators.                                                *)
(*                                                                         *)
(* dir[x] is the set of sequence indices of the image files in attraction  *)
(* x's directory (`<name>_<index>.jpg`).  The provider is a stub: "fixed"  *)
(* returns `pattern` on every search, each candidate "good" (its download  *)
(* always succeeds) or "bad" (its request always fails); "free" returns    *)
(* any list, and each download meets any response.                         *)
(***************************************************************************)
NumAttractions == Cardinality(Attractions)
Candidates == {"good", "bad", "any"}
Zero == [search |-> 0, download |-> 0]

SeqsUpTo(S, n) == UNION {[1..k -> S] : k \in 0..n}
Patterns == SeqsUpTo({"good", "bad"}, MaxCands)

GoodResp ==
    [http |-> "ok", ctype |-> "image", clen |-> -1, body |-> 20000,
     stream |-> "ok", decode |-> TRUE, save |-> "ok", left |-> FALSE,
     jpeg |-> 20000, rm |-> "ok"]
BadResp == [GoodResp EXCEPT !.http = "error"]
RespsFor(c) ==
    CASE c = "good" -> {GoodResp} [] c = "bad" -> {BadResp} [] c = "any" -> Responses

\* What a download_image call can do to the destination path, as the
\* orchestrator sees it: the returned value, whether a file is there, and
\* whether the write of the file failed on the way (disk).
Outcomes ==
    [s \in Scrapers, c \in Candidates, b \in BOOLEAN |->
        {[ret |-> download_image(s, r, IF b THEN File(20000, TRUE) ELSE NoFile).ret,
          exists |->
              download_image(s, r, IF b THEN File(20000, TRUE) ELSE NoFile).file.exists,
          disk |-> write_fails(s, r)] : r \in RespsFor(c)}]

\* count_images_in_directory / the listdir count: every file the scrapers
\* write is a .jpg, so every file of the directory counts.
count_images_in_directory(d) == Cardinality(d)

\* the per-scraper targets (100, 10, 10 in the source)
cse_target == TargetCount
flickr_target == TargetCount
maps_target == TargetCount

\* "already has enough images"
cse_enough(existing) == existing >= cse_target
flickr_enough_strict(existing) == existing > flickr_target
flickr_enough(existing) == existing >= flickr_target
maps_enough_strict(existing) == existing > maps_target
maps_enough(existing) == existing >= maps_target

\* the sequence index of the next file
index_by_position(existing, downloaded, pos) == existing + pos
cse_index(existing, downloaded, pos) == existing + downloaded + 1
flickr_index(existing, downloaded, pos) == existing + downloaded + 1
maps_index(existing, downloaded, pos) == existing + pos

\* the provider's answer to one search
SearchResults ==
    IF stub = "fixed" THEN {pattern} ELSE SeqsUpTo({"any"}, MaxCands)

OrchInit ==
    /\ scraper \in Scrapers
    /\ \/ stub = "fixed" /\ pattern \in Patterns
       \/ stub = "free" /\ pattern = <<>>
    /\ run = 0 /\ ends = <<>> /\ pc = "idle" /\ a = 1
    /\ dir = [x \in Attractions |-> {}]
    /\ existing_images = 0 /\ image_urls = <<>> /\ i = 0
    /\ downloaded_count = 0 /\ success_count = 0 /\ error_count = 0
    /\ name_bound = FALSE /\ net = Zero /\ stored = {}
    /\ status = [x \in Attractions |-> "pending"]
    /\ credentials \in BOOLEAN /\ save_failed = FALSE
    /\ FetchIdle /\ SearchIdle /\ ToolsIdle

\* What no step of a run changes: the stub, and the environment variables
\* that hold the provider credentials.
Fixed == <<scraper, stub, pattern, credentials, fetchVars, searchVars, toolVars>>

\* main() starts process_attractions / process_csv_file.
StartRun ==
    /\ pc \in {"idle", "done", "killed", "aborted"}
    /\ run < MaxRuns
    /\ run' = run + 1
    /\ pc' = "start" /\ a' = 1
    /\ success_count' = 0 /\ error_count' = 0 /\ name_bound' = FALSE
    /\ status' = [x \in Attractions |-> "pending"]
    /\ existing_images' = 0 /\ image_urls' = <<>> /\ i' = 0
    /\ downloaded_count' = 0 /\ net' = Zero /\ stored' = {}
    /\ save_failed' = FALSE
    /\ UNCHANGED <<Fixed, ends, dir>>

\* google_search_image_scraper lines 235-238 and image_scraper lines 98-100:
\* without the API credentials process_attractions logs an error and
\* returns.  flickr_image_scraper lines 39-41 and 352-358: without them
\* main and __init__ log warnings, self.flickr is None, and the run goes on
\* with the web search of scrape_attraction_images (lines 246-251).
refuses_without_credentials(s) == s \in {"cse", "maps"}

CheckCredentials ==
    /\ pc = "start"
    /\ IF ~credentials /\ refuses_without_credentials(scraper)
       THEN /\ pc' = "done"
            /\ ends' = Append(ends, [how |-> "no_credentials", at |-> a])
       ELSE /\ pc' = "begin"
            /\ UNCHANGED ends
    /\ UNCHANGED <<Fixed, run, a, dir, existing_images, image_urls, i,
                   downloaded_count, success_count, error_count, name_bound,
                   net, stored, status, save_failed>>

\* the current attraction is left with outcome st; the loop goes on
EndAttraction(st, ds, de) ==
    /\ status' = [status EXCEPT ![a] = st]
    /\ success_count' = success_count + ds
    /\ error_count' = error_count + de
    /\ a' = a + 1
    /\ pc' = IF a = NumAttractions THEN "summary" ELSE "begin"
    /\ existing_images' = 0 /\ image_urls' = <<>> /\ i' = 0
    /\ downloaded_count' = 0 /\ net' = Zero /\ stored' = {}
    /\ UNCHANGED <<Fixed, run, ends>>

\* How a run ended, and the attraction it was at.
RunEnd(how) == [how |-> how, at |-> a]

\* the process ends; what it held in memory is gone
ProcessEnds(state, how) ==
    /\ pc' = state
    /\ ends' = Append(ends, RunEnd(how))
    /\ a' = 1 /\ success_count' = 0 /\ error_count' = 0 /\ name_bound' = FALSE
    /\ status' = [x \in Attractions |-> "pending"]
    /\ existing_images' = 0 /\ image_urls' = <<>> /\ i' = 0
    /\ downloaded_count' = 0 /\ net' = Zero /\ stored' = {}
    /\ save_failed' = FALSE
    /\ UNCHANGED <<Fixed, run>>

\* one download_image call of the loop body on candidate i+1, to index idx
Download(idx) ==
    \E o \in Outcomes[scraper, image_urls[i + 1], idx \in dir[a]] :
        /\ dir' = [dir EXCEPT ![a] = IF o.exists THEN @ \cup {idx} ELSE @ \ {idx}]
        /\ save_failed' = (save_failed \/ o.disk)
        /\ IF o.ret = "raise"
           THEN EndAttraction("raised", 0, 1) /\ UNCHANGED name_bound
           ELSE /\ downloaded_count' =
                      IF o.ret = "True" THEN downloaded_count + 1 ELSE downloaded_count
                /\ stored' = IF o.ret = "True" THEN stored \cup {idx} ELSE stored
                /\ net' = [net EXCEPT !.download = @ + 1]
                /\ i' = i + 1
                /\ UNCHANGED <<Fixed, run, ends, pc, a, existing_images, image_urls,
                               success_count, error_count, name_bound, status>>

(* ---- google_search_image_scraper.process_attractions ------------------ *)
\* lines 260-274: the row is read, the directory made, the images counted
CseBegin ==
    /\ scraper = "cse" /\ pc = "begin"
    /\ name_bound' = TRUE
    /\ LET existing == count_images_in_directory(dir[a]) IN
       IF cse_enough(existing)
       THEN EndAttraction("satisfied", 0, 0)
       ELSE /\ existing_images' = existing
            /\ pc' = "search"
            /\ UNCHANGED <<Fixed, run, ends, a, image_urls, i, downloaded_count,
                           success_count, error_count, net, stored, status>>
    /\ UNCHANGED <<dir, save_failed>>

\* lines 281-290: searcher.search_images, then the empty check
CseSearch ==
    /\ scraper = "cse" /\ pc = "search"
    /\ \E urls \in SearchResults :
        IF urls = <<>>
        THEN EndAttraction("failed", 0, 1)
        ELSE /\ image_urls' = urls
             /\ downloaded_count' = 0 /\ i' = 0
             /\ net' = [net EXCEPT !.search = @ + 1]
             /\ pc' = "loop"
             /\ UNCHANGED <<Fixed, run, ends, a, existing_images, success_count,
                            error_count, stored, status>>
    /\ UNCHANGED <<dir, name_bound, save_failed>>

\* lines 291-311: one iteration of the download loop
CseLoopStep ==
    /\ scraper = "cse" /\ pc = "loop"
    /\ i < Len(image_urls)
    /\ ~cse_enough(existing_images + downloaded_count)
    /\ LET idx == cse_index(existing_images, downloaded_count, i + 1) IN
       IF idx \in dir[a]
       THEN /\ downloaded_count' = downloaded_count + 1
            /\ i' = i + 1
            /\ UNCHANGED <<Fixed, run, ends, pc, a, dir, existing_images,
                           image_urls, success_count, error_count, name_bound,
                           net, stored, status, save_failed>>
       ELSE Download(idx)

\* lines 292-293, 313-315: the loop is left, the attraction counted
CseLoopEnd ==
    /\ scraper = "cse" /\ pc = "loop"
    /\ i >= Len(image_urls) \/ cse_enough(existing_images + downloaded_count)
    /\ EndAttraction("done", 1, 0)
    /\ UNCHANGED <<dir, name_bound, save_failed>>

\* lines 317-321: row['...'] raises before attraction_name is assigned; the
\* handler's log line reads attraction_name, unbound on the first
\* iteration, and the NameError leaves process_attractions.
CseRaiseAtRow ==
    /\ scraper = "cse" /\ pc = "begin"
    /\ IF name_bound
       THEN EndAttraction("raised", 0, 1) /\ UNCHANGED <<name_bound, save_failed>>
       ELSE ProcessEnds("aborted", "aborted")
    /\ UNCHANGED dir

\* lines 317-321: any later statement of the try body raises
CseRaise ==
    /\ scraper = "cse" /\ pc \in {"begin", "search"}
    /\ name_bound' = TRUE
    /\ EndAttraction("raised", 0, 1)
    /\ UNCHANGED <<dir, save_failed>>

(* ---- FlickrImageScraper.process_csv_file / scrape_attraction_images --- *)
\* lines 209-222
FlickrBegin ==
    /\ scraper = "flickr" /\ pc = "begin"
    /\ LET existing == count_images_in_directory(dir[a]) IN
       IF flickr_enough(existing)
       THEN EndAttraction("satisfied", 1, 0)
       ELSE /\ existing_images' = existing
            /\ pc' = "search"
            /\ UNCHANGED <<Fixed, run, ends, a, image_urls, i, downloaded_count,
                           success_count, error_count, net, stored, status>>
    /\ UNCHANGED <<dir, name_bound, save_failed>>

\* lines 231-258: the API queries, the web fallback, the empty check
FlickrSearch ==
    /\ scraper = "flickr" /\ pc = "search"
    /\ \E urls \in SearchResults :
        IF urls = <<>>
        THEN EndAttraction("failed", 0, 1)
        ELSE /\ image_urls' = urls
             /\ downloaded_count' = 0 /\ i' = 0
             /\ net' = [net EXCEPT !.search = @ + 1]
             /\ pc' = "loop"
             /\ UNCHANGED <<Fixed, run, ends, a, existing_images, success_count,
                            error_count, stored, status>>
    /\ UNCHANGED <<dir, name_bound, save_failed>>

\* lines 260-275; needed_images = max_images - existing_images
FlickrLoopStep ==
    /\ scraper = "flickr" /\ pc = "loop"
    /\ i < Len(image_urls)
    /\ ~flickr_enough(existing_images + downloaded_count)
    /\ Download(flickr_index(existing_images, downloaded_count, i + 1))

\* lines 261-262, 277-278 and 330-333
FlickrLoopEnd ==
    /\ scraper = "flickr" /\ pc = "loop"
    /\ i >= Len(image_urls) \/ flickr_enough(existing_images + downloaded_count)
    /\ IF downloaded_count > 0
       THEN EndAttraction("done", 1, 0)
       ELSE EndAttraction("failed", 0, 1)
    /\ UNCHANGED <<dir, name_bound, save_failed>>

\* lines 335-337: scrape_attraction_images raises
FlickrRaise ==
    /\ scraper = "flickr" /\ pc \in {"begin", "search"}
    /\ EndAttraction("raised", 0, 1)
    /\ UNCHANGED <<dir, name_bound, save_failed>>

(* ---- image_scraper.process_attractions -------------------------------- *)
\* lines 119-143
MapsBegin ==
    /\ scraper = "maps" /\ pc = "begin"
    /\ LET existing == count_images_in_directory(dir[a]) IN
       IF maps_enough(existing)
       THEN EndAttraction("satisfied", 0, 0)
       ELSE /\ existing_images' = existing
            /\ pc' = "search"
            /\ UNCHANGED <<Fixed, run, ends, a, image_urls, i, downloaded_count,
                           success_count, error_count, net, stored, status>>
    /\ UNCHANGED <<dir, name_bound, save_failed>>

\* lines 146-154: get_place_photos; images_to_download = min(10 - existing, len)
MapsSearch ==
    /\ scraper = "maps" /\ pc = "search"
    /\ \E urls \in SearchResults :
        IF urls = <<>>
        THEN EndAttraction("failed", 0, 0)
        ELSE /\ image_urls' = SubSeq(urls, 1, Min(maps_target - existing_images, Len(urls)))
             /\ downloaded_count' = 0 /\ i' = 0
             /\ net' = [net EXCEPT !.search = @ + 1]
             /\ pc' = "loop"
             /\ UNCHANGED <<Fixed, run, ends, a, existing_images, success_count,
                            error_count, stored, status>>
    /\ UNCHANGED <<dir, name_bound, save_failed>>

\* lines 157-175
MapsLoopStep ==
    /\ scraper = "maps" /\ pc = "loop"
    /\ i < Len(image_urls)
    /\ LET idx == maps_index(existing_images, downloaded_count, i + 1) IN
       IF idx \in dir[a]
       THEN /\ i' = i + 1
            /\ UNCHANGED <<Fixed, run, ends, pc, a, dir, existing_images,
                           image_urls, downloaded_count, success_count,
                           error_count, name_bound, net, stored, status,
                           save_failed>>
       ELSE Download(idx)

\* line 177
MapsLoopEnd ==
    /\ scraper = "maps" /\ pc = "loop"
    /\ i >= Len(image_urls)
    /\ EndAttraction("done", 0, 0)
    /\ UNCHANGED <<dir, name_bound, save_failed>>

\* lines 179-181: reading the JSON file raises
MapsRaise ==
    /\ scraper = "maps" /\ pc = "begin"
    /\ EndAttraction("raised", 0, 0)
    /\ UNCHANGED <<dir, name_bound, save_failed>>

(* ---- the run as a whole ------------------------------------------------ *)
\* the final log line with the aggregate counts
Summary ==
    /\ pc = "summary"
    /\ pc' = "done"
    /\ ends' = Append(ends, RunEnd("done"))
    /\ UNCHANGED <<Fixed, run, a, dir, existing_images, image_urls, i,
                   downloaded_count, success_count, error_count, name_bound,
                   net, stored, status, save_failed>>

\* the process is terminated between two steps
Interrupt ==
    /\ pc \in {"begin", "search", "loop", "summary"}
    /\ ProcessEnds("killed", "killed")
    /\ UNCHANGED dir

\* the process is terminated while download_image writes the file
KillDuringWrite ==
    /\ pc = "loop"
    /\ i < Len(image_urls)
    /\ LET idx == CASE scraper = "cse" -> cse_index(existing_images, downloaded_count, i + 1)
                    [] scraper = "flickr" -> flickr_index(existing_images, downloaded_count, i + 1)
                    [] scraper = "maps" -> maps_index(existing_images, downloaded_count, i + 1)
       IN /\ scraper = "cse" => ~cse_enough(existing_images + downloaded_count)
          /\ scraper = "flickr" => ~flickr_enough(existing_images + downloaded_count)
          /\ scraper \in {"cse", "maps"} => idx \notin dir[a]
          /\ dir' = [dir EXCEPT ![a] = @ \cup {idx}]
    /\ ProcessEnds("killed", "killed_in_write")

Next ==
    \/ StartRun \/ CheckCredentials
    \/ CseBegin \/ CseSearch \/ CseLoopStep \/ CseLoopEnd \/ CseRaiseAtRow \/ CseRaise
    \/ FlickrBegin \/ FlickrSearch \/ FlickrLoopStep \/ FlickrLoopEnd \/ FlickrRaise
    \/ MapsBegin \/ MapsSearch \/ MapsLoopStep \/ MapsLoopEnd \/ MapsRaise
    \/ Summary \/ Interrupt \/ KillDuringWrite

Spec == OrchInit /\ [][Next]_vars

\* AnyDirSpec: the same runs, started on an output root where the first
\* attraction's directory already holds any set of image files short of the
\* target: indices with gaps, and (index TargetCount + 1) files the scraper
\* counts but never writes.
InitialDirs ==
    {d \in SUBSET (1..(TargetCount + 1)) : Cardinality(d) < TargetCount}

AnyDirInit ==
    /\ scraper \in Scrapers
    /\ stub = "free" /\ pattern = <<>>
    /\ run = 0 /\ ends = <<>> /\ pc = "idle" /\ a = 1
    /\ dir \in {[x \in Attractions |-> IF x = 1 THEN d ELSE {}] : d \in InitialDirs}
    /\ existing_images = 0 /\ image_urls = <<>> /\ i = 0
    /\ downloaded_count = 0 /\ success_count = 0 /\ error_count = 0
    /\ name_bound = FALSE /\ net = Zero /\ stored = {}
    /\ status = [x \in Attractions |-> "pending"]
    /\ credentials = TRUE /\ save_failed = FALSE
    /\ FetchIdle /\ SearchIdle /\ ToolsIdle

AnyDirSpec == AnyDirInit /\ [][Next]_vars

\* The runs nobody terminates from outside: every statement that can be
\* executed is executed (one thread, every request has a timeout).
RunNext ==
    \/ StartRun \/ CheckCredentials
    \/ CseBegin \/ CseSearch \/ CseLoopStep \/ CseLoopEnd \/ CseRaiseAtRow \/ CseRaise
    \/ FlickrBegin \/ FlickrSearch \/ FlickrLoopStep \/ FlickrLoopEnd \/ FlickrRaise
    \/ MapsBegin \/ MapsSearch \/ MapsLoopStep \/ MapsLoopEnd \/ MapsRaise
    \/ Summary

RunSpec == OrchInit /\ [][RunNext]_vars /\ WF_vars(RunNext)

(***************************************************************************)
(* Claims about the orchestrators (checked under Spec).                    *)
(***************************************************************************)
Contiguous(d) == d = 1..Cardinality(d)

\* C1 (as claimed): resumability of google_search_image_scraper.
\* With the fixed stub every search returns the same candidates, so in a
\* complete second run attraction 2 (untouched by a first run that was
\* stopped while at attraction 1) is a single uninterrupted run from the
\* empty directory, and attraction 1 is the resumed one: the claim is that
\* both end with the same set of file indices.
C1_ResumeEqualsUninterrupted ==
    (/\ scraper = "cse" /\ stub = "fixed"
     /\ Len(ends) = 2
     /\ ends[1] = [how |-> "killed", at |-> 1]
     /\ ends[2].how = "done")
    => dir[1] = dir[2]

\* C2 (as claimed): idempotence of a completed run.  With the fixed stub,
\* once a first run from the empty output root has completed, no step of
\* the second run of the Google Custom Search or Flickr scraper adds,
\* removes or renumbers a file.
C2_SecondRunChangesNothing ==
    [][(/\ scraper \in {"cse", "flickr"} /\ stub = "fixed"
        /\ run = 2 /\ Len(ends) >= 1 /\ ends[1].how = "done")
       => dir' = dir]_vars

\* C3: contiguity in the Google Custom Search and Flickr scrapers.  From
\* empty directories, after any sequence of complete, interrupted or
\* aborted runs and any download outcomes, every attraction's stored
\* indices are exactly 1..N, N the number of stored files.
C3_Contiguity ==
    scraper \in {"cse", "flickr"} => \A x \in Attractions : Contiguous(dir[x])

\* C3 witness: a resumed run has stored a file behind those of an
\* interrupted one, after a failed candidate.
C3_Witness ==
    /\ scraper \in {"cse", "flickr"}
    /\ Len(ends) >= 1 /\ ends[1].how \in {"killed", "killed_in_write"}
    /\ run = 2 /\ pc = "loop" /\ existing_images >= 1
    /\ i > downloaded_count /\ downloaded_count >= 1
    /\ Cardinality(dir[a]) = existing_images + downloaded_count

\* C4 (as claimed): in the Google Maps scraper the files stored in one run
\* carry the indices existing_count + 1, existing_count + 2, ... with no
\* gap, whatever downloads failed.
C4_MapsRunContiguous ==
    scraper = "maps" =>
        stored = (existing_images + 1)..(existing_images + Cardinality(stored))

\* C5: skip-when-satisfied.  When an attraction is reached with at least
\* the target number of images in its directory, the step taken there
\* issues no search and no download request, changes no directory and
\* leaves the attraction (so no later request is made for it either).
C5_SkipWhenSatisfied ==
    [][(/\ pc = "begin"
        /\ count_images_in_directory(dir[a]) >= TargetCount)
       => (/\ net' = net /\ net = Zero
           /\ dir' = dir
           /\ pc' \notin {"search", "loop"}
           /\ pc' = "begin" => a' = a + 1)]_vars

\* C5 witness: both attractions of a run were skipped as satisfied.
C5_Witness ==
    /\ pc = "summary"
    /\ \A x \in Attractions : status[x] = "satisfied"

\* C8 (as claimed): partial-failure tolerance.  In the Google Custom Search
\* and Flickr orchestrators a step in which an attraction's processing
\* raises adds one to the failure counter, leaves the success counter and
\* goes on with the next attraction.
C8_RaiseCountsOneFailure ==
    [][(CseRaiseAtRow \/ CseRaise \/ FlickrRaise)
       => (/\ error_count' = error_count + 1
           /\ success_count' = success_count
           /\ a' = a + 1
           /\ pc' \in {"begin", "summary"})]_vars

(***************************************************************************)
(* Claims about search_images (checked under SearchSpec).                  *)
(***************************************************************************)
\* C9 (as claimed): pagination termination.  The page requests stop only
\* once num_images candidates are collected or the provider has returned
\* an empty page.
C9_StopsOnlyOnTargetOrEmpty ==
    s_pc = "returned" => (url_count >= num_images \/ stop = "empty")

\* C9 (amended): the page requests stop only once num_images candidates
\* are collected, the provider has returned an empty page, the start
\* offset has passed 91, or a page request or its parsing has failed.
C9_StopsOnlyOnTargetEmptyCeilingOrFailure ==
    s_pc = "returned" =>
        \/ url_count >= num_images
        \/ stop = "empty"
        \/ start_index > 91
        \/ stop \in {"request_error", "parse_error"}

\* C9 witness: every page held items, none failed, and the call returned
\* at the offset ceiling with fewer than num_images candidates.
C9_Witness ==
    /\ s_pc = "returned" /\ stop = "none"
    /\ num_images = 100 /\ url_count < num_images /\ n_requests = 10

\* C10: bounded pagination.  The k-th page request carries start offset
\* 1 + 10 (k - 1), never above 91, so at most 10 requests are issued; each
\* asks for min(10, num_images - collected) results; and the call returns.
C10_RequestsBounded ==
    /\ n_requests <= 10
    /\ s_pc = "waiting" =>
        /\ req_start = 1 + 10 * (n_requests - 1)
        /\ req_start <= 91
        /\ req_num = Min(10, num_images - url_count)
        /\ req_num >= 1
\* C10: the request bounds hold throughout and every call returns.
C10_BoundedPagination ==
    []C10_RequestsBounded /\ <>(s_pc = "returned")

\* C10 witness: the tenth request, at offset 91, asking for fewer than 10.
C10_Witness ==
    /\ s_pc = "waiting" /\ n_requests = 10 /\ req_start = 91
    /\ req_num < 10

(***************************************************************************)
(* Claims about download_image (checked under FetchSpec).                  *)
(***************************************************************************)
\* C6 (as claimed): validation rejection in
\* google_search_image_scraper.download_image.  Called on a path that holds
\* no file and with a working os.remove, a response with a non-image
\* content type, or with a payload under 10,000 bytes, is answered False
\* and leaves no file at the path.
C6_CseRejectsNonImageOrSmall ==
    (/\ f_pc = "returned" /\ f_scraper = "cse"
     /\ f_before = NoFile /\ f_resp.rm = "ok"
     /\ (f_resp.ctype # "image" \/ f_resp.body < 10000))
    => (f_result.ret = "False" /\ ~f_result.file.exists)

\* C7 (as claimed): fetch outcome of the Flickr and Google Custom Search
\* download_image, called on a path that holds no file and with a working
\* os.remove: a True return leaves a file at the path (of at least 10,000
\* bytes for Flickr, non-empty for Google Custom Search), a False return
\* leaves none.
C7_FileIffTrue ==
    (/\ f_pc = "returned" /\ f_scraper \in {"cse", "flickr"}
     /\ f_before = NoFile /\ f_resp.rm = "ok")
    => /\ f_result.ret = "True" =>
            /\ f_result.file.exists
            /\ f_scraper = "flickr" => f_result.file.size >= 10000
            /\ f_scraper = "cse" => f_result.file.size > 0
       /\ f_result.ret = "False" => ~f_result.file.exists


(***************************************************************************)
(* Claims about the failure policy of search_images (under SearchSpec).    *)
(***************************************************************************)
PageFailures == {"request_error", "parse_error"}

\* C11: when the request of page p fails with a request exception or a
\* parsing error, the call returns at once (it does not raise), with the
\* candidates it held before that request and with no request added; and
\* once it has failed nothing more happens in the call: no retry, no
\* further page.
C11_FailureEndsPagination ==
    [][/\ (stop \notin PageFailures /\ stop' \in PageFailures)
            => /\ s_pc = "waiting" /\ s_pc' = "returned"
               /\ url_count' = url_count
               /\ n_requests' = n_requests
               /\ start_index' = start_index
       /\ stop \in PageFailures
            => /\ s_pc = "returned"
               /\ UNCHANGED <<s_pc, stop, url_count, n_requests>>]_vars

\* a call that collected candidates on an earlier page and failed on a
\* later one
C11_Witness ==
    /\ stop \in PageFailures /\ s_pc = "returned"
    /\ n_requests >= 2 /\ url_count > 0 /\ url_count < num_images


(***************************************************************************)
(* Claims about credentials, outcomes and storage errors (under Spec).     *)
(***************************************************************************)
\* C12 (as claimed): credential fail-fast.  In a run started without the
\* provider credentials in the environment no search request and no
\* download request is issued and no image is stored, whichever of the
\* three scrapers runs.
C12_NoCredentialsNoTraffic ==
    ~credentials =>
        /\ net = Zero /\ stored = {}
        /\ \A x \in Attractions : dir[x] = {}

\* C13 (as claimed): when google_search_image_scraper leaves the download
\* loop of an attraction for which candidates were found, the attraction is
\* counted in success_count only if at least one image was stored for it in
\* this run; with no image stored it is counted in error_count and not in
\* success_count.
C13_DoneOnlyIfDownloaded ==
    [][(/\ scraper = "cse" /\ pc = "loop" /\ a' = a + 1
        /\ status'[a] # "raised")
       => IF stored # {}
          THEN /\ status'[a] = "done"
               /\ success_count' = success_count + 1
               /\ error_count' = error_count
          ELSE /\ status'[a] = "failed"
               /\ success_count' = success_count
               /\ error_count' = error_count + 1]_vars

\* C15 (as claimed): a storage error is fatal.  Once the write of an image
\* file has failed in a run of the Flickr or Google Custom Search scraper,
\* that run issues no further download or search request and goes on to no
\* further attraction.
C15_StorageErrorAborts ==
    [][(/\ scraper \in {"cse", "flickr"} /\ save_failed /\ run' = run)
       => /\ net'.download <= net.download
          /\ net'.search <= net.search
          /\ a' <= a]_vars


(***************************************************************************)
(* Run completion (under RunSpec).                                         *)
(***************************************************************************)
\* C14 (as claimed): every run of google_search_image_scraper or of the
\* Flickr scraper that has its credentials and has loaded its input
\* eventually reaches the final summary line, whatever happens inside the
\* per-attraction blocks.
C14_RunReachesSummary ==
    \A r \in 1..MaxRuns :
        (/\ scraper \in {"cse", "flickr"} /\ credentials
         /\ run = r /\ pc = "begin")
        ~> (Len(ends) >= r /\ ends[r].how = "done")


(***************************************************************************)
(* Target bound (under AnyDirSpec).                                        *)
(***************************************************************************)
target_of(s) ==
    CASE s = "cse" -> cse_target [] s = "flickr" -> flickr_target
      [] s = "maps" -> maps_target

C17_CountWithinTarget ==
    /\ \A x \in Attractions : count_images_in_directory(dir[x]) <= target_of(scraper)
    /\ pc = "loop" =>
          Cardinality(stored) <= target_of(scraper) - existing_images

\* C17: started on a directory that holds fewer image files than the
\* target, whatever their names, a run stores at most target - existing new
\* files for the attraction, the directory never counts more image files
\* than the target, and no step creates a file whose index is above the
\* target.
C17_TargetBound ==
    /\ []C17_CountWithinTarget
    /\ [][\A x \in Attractions :
             dir'[x] \ dir[x] \subseteq 1..target_of(scraper)]_vars

\* a run on a directory with a gap and an uncounted-index file that filled
\* the directory up to the target
C17_Witness ==
    /\ run = 1 /\ pc = "loop" /\ a = 1
    /\ existing_images > 0 /\ stored # {}
    /\ ~Contiguous(dir[1])
    /\ count_images_in_directory(dir[1]) = target_of(scraper)


(***************************************************************************)
(* GenSpec: reasoning/attraction_generation.py, run several times over one *)
(* attraction folder and one result.jsonl.                                 *)
(*                                                                         *)
(* A path is a sequence of characters and path components: glob returns    *)
(* "../" followed by the rest of the path, a component that stands for     *)
(* "Data_F1000/google_search_image_data/<attraction>/<file>.jpg" and holds *)
(* no "..".  result_jsonl is the sequence of records of the file.  rows is  *)
(* the number of rows of the CSV's first three that name the attraction.   *)
(***************************************************************************)
Images == {"a", "b", "c"}

\* line 19 and line 45: the path glob returns for an image of the folder
image_path_of(m) == <<".", ".", "/", m>>

\* str.replace('..', '.') (line 80): non-overlapping, left to right
RECURSIVE replace_dotdot(_)
replace_dotdot(p) ==
    IF Len(p) < 2 THEN p
    ELSE IF p[1] = "." /\ p[2] = "."
         THEN <<".">> \o replace_dotdot(SubSeq(p, 3, Len(p)))
         ELSE <<p[1]>> \o replace_dotdot(Tail(p))

\* lines 77-83: the record written for an image
result_record(p) ==
    [image_path |-> replace_dotdot(p), image_filename |-> p[Len(p)]]

\* lines 23-29: the ledger read back from result.jsonl
load_processed_images(file) == {file[k].image_path : k \in DOMAIN file}

\* lines 45-48: glob lists the folder in any order; the first
\* ImagesPerAttractionInTest are kept
glob_first(d) ==
    {q \in SeqsUpTo(d, ImagesPerAttractionInTest) :
        /\ Len(q) = Min(ImagesPerAttractionInTest, Cardinality(d))
        /\ \A j, k \in DOMAIN q : j # k => q[j] # q[k]}

paths_of(q) == [k \in DOMAIN q |-> image_path_of(q[k])]

GenInit ==
    /\ g_pc = "idle" /\ g_run = 0
    /\ rows \in {1, 2}
    /\ folder \in SUBSET Images
    /\ result_jsonl = <<>> /\ processed_images = {} /\ g_image_files = <<>>
    /\ FetchIdle /\ SearchIdle /\ OrchIdle /\ SplitIdle /\ RenameIdle /\ FilterIdle /\ CountIdle /\ RateIdle /\ JsonIdle /\ OutcomeIdle

GenOthers == <<fetchVars, searchVars, orchVars, splitVars, renameVars, filterVars, countVars, rateVars, jsonVars, outcomeVars>>

\* lines 22-29, 99-112: the script starts, reads the ledger, lists the folder
GenStart ==
    /\ g_pc \in {"idle", "finished"}
    /\ g_run < MaxRuns
    /\ g_run' = g_run + 1
    /\ processed_images' = load_processed_images(result_jsonl)
    /\ \E q1, q2 \in glob_first(folder) :
          g_image_files' = IF rows = 1 THEN paths_of(q1)
                           ELSE paths_of(q1) \o paths_of(q2)
    /\ g_pc' = "loop"
    /\ UNCHANGED <<rows, folder, result_jsonl, GenOthers>>

\* lines 52-56: the image is in processed_images and is skipped
GenSkip ==
    /\ g_pc = "loop" /\ g_image_files # <<>>
    /\ Head(g_image_files) \in processed_images
    /\ g_image_files' = Tail(g_image_files)
    /\ UNCHANGED <<g_pc, g_run, rows, folder, result_jsonl, processed_images, GenOthers>>

\* lines 58-92: upload, generate_content, the record appended, the set updated
GenProcess ==
    /\ g_pc = "loop" /\ g_image_files # <<>>
    /\ Head(g_image_files) \notin processed_images
    /\ result_jsonl' = Append(result_jsonl, result_record(Head(g_image_files)))
    /\ processed_images' = processed_images \cup {Head(g_image_files)}
    /\ g_image_files' = Tail(g_image_files)
    /\ UNCHANGED <<g_pc, g_run, rows, folder, GenOthers>>

\* lines 94-96: upload or generate_content raises; nothing is recorded
GenFail ==
    /\ g_pc = "loop" /\ g_image_files # <<>>
    /\ Head(g_image_files) \notin processed_images
    /\ g_image_files' = Tail(g_image_files)
    /\ UNCHANGED <<g_pc, g_run, rows, folder, result_jsonl, processed_images, GenOthers>>

\* line 114
GenFinish ==
    /\ g_pc = "loop" /\ g_image_files = <<>>
    /\ g_pc' = "finished"
    /\ UNCHANGED <<g_run, rows, folder, result_jsonl, processed_images, g_image_files,
                   GenOthers>>

GenNext == GenStart \/ GenSkip \/ GenProcess \/ GenFail \/ GenFinish

GenSpec == GenInit /\ [][GenNext]_vars

\* C16 (as claimed): an image recorded in result.jsonl by an earlier run is
\* skipped by every later run, so whatever the runs, result.jsonl holds at
\* most one record per image file.
C16_OneRecordPerImage ==
    \A m \in Images :
        Cardinality({k \in DOMAIN result_jsonl :
                        result_jsonl[k].image_filename = m}) <= 1


(***************************************************************************)
(* SplitSpec: split_train_val on one attraction directory.                 *)
(*                                                                         *)
(* A file is <<stem, extension>>; stems are distinct and give the sorted   *)
(* order of the paths.  train_ratio is in tenths (9 is 0.9), for which     *)
(* math.floor(n * train_ratio) in floating point equals the integer        *)
(* floor.  glob_ignores_case is pathlib's pattern matching of the          *)
(* platform: Path.glob compiles its pattern with re.IGNORECASE on Windows  *)
(* and case-sensitively elsewhere.                                         *)
(***************************************************************************)
Stems == 1..MaxFiles
Extensions == {"jpg", "JPG", "txt"}

\* line 57-59: the patterns globbed, each extension and its upper case
GlobPatterns == <<"jpg", "JPG">>

lower(e) == IF e = "JPG" THEN "jpg" ELSE e

\* whether Path.glob("*." + pat) returns file f
glob_matches(pat, f, ignore_case) ==
    IF ignore_case THEN lower(f[2]) = lower(pat) ELSE f[2] = pat

\* lines 56-59: how many times f is put into image_files
occurrences(f, ignore_case) ==
    Cardinality({k \in DOMAIN GlobPatterns : glob_matches(GlobPatterns[k], f, ignore_case)})

\* k copies of x
Repeat(x, k) == [j \in 1..k |-> x]

\* line 62: image_files.sort(), on the list of lines 56-59
RECURSIVE sorted_from(_, _, _)
sorted_from(stem, d, ignore_case) ==
    IF stem > MaxFiles THEN <<>>
    ELSE LET here == {f \in d : f[1] = stem}
             f == CHOOSE g \in here : TRUE
         IN (IF here = {} THEN <<>> ELSE Repeat(f, occurrences(f, ignore_case)))
            \o sorted_from(stem + 1, d, ignore_case)

\* line 70: math.floor(total_images * train_ratio)
floor_ratio(n, tenths) == (n * tenths) \div 10

SourceDirs ==
    {d \in SUBSET (Stems \X Extensions) :
        \A f, g \in d : f[1] = g[1] => f = g}

SplitInit ==
    /\ sp_pc = "list"
    /\ source_files \in SourceDirs
    /\ glob_ignores_case \in BOOLEAN
    /\ train_ratio \in {5, 9}
    /\ sp_image_files = <<>> /\ train_count = 0 /\ sp_i = 0
    /\ train_files = {} /\ val_files = {}
    /\ FetchIdle /\ SearchIdle /\ OrchIdle /\ GenIdle /\ RenameIdle /\ FilterIdle /\ CountIdle /\ RateIdle /\ JsonIdle /\ OutcomeIdle

SplitOthers == <<fetchVars, searchVars, orchVars, genVars, renameVars, filterVars, countVars, rateVars, jsonVars, outcomeVars>>
SplitParams == <<source_files, glob_ignores_case, train_ratio>>

\* lines 55-71: the files are listed and sorted, the split point computed
SplitList ==
    /\ sp_pc = "list"
    /\ sp_image_files' = sorted_from(1, source_files, glob_ignores_case)
    /\ IF sp_image_files' = <<>>
       THEN sp_pc' = "done" /\ UNCHANGED train_count
       ELSE /\ train_count' = floor_ratio(Len(sp_image_files'), train_ratio)
            /\ sp_pc' = "copy_train"
    /\ sp_i' = 0
    /\ UNCHANGED <<SplitParams, train_files, val_files, SplitOthers>>

\* lines 85-88: one iteration of the first copy loop
CopyTrain ==
    /\ sp_pc = "copy_train" /\ sp_i < train_count
    /\ train_files' = train_files \cup {sp_image_files[sp_i + 1]}
    /\ sp_i' = sp_i + 1
    /\ UNCHANGED <<sp_pc, SplitParams, sp_image_files, train_count, val_files,
                   SplitOthers>>

\* line 85 exhausted, line 91 entered
CopyTrainEnd ==
    /\ sp_pc = "copy_train" /\ sp_i >= train_count
    /\ sp_pc' = "copy_val"
    /\ UNCHANGED <<SplitParams, sp_image_files, train_count, sp_i, train_files,
                   val_files, SplitOthers>>

\* lines 91-94: one iteration of the second copy loop
CopyVal ==
    /\ sp_pc = "copy_val" /\ sp_i < Len(sp_image_files)
    /\ val_files' = val_files \cup {sp_image_files[sp_i + 1]}
    /\ sp_i' = sp_i + 1
    /\ UNCHANGED <<sp_pc, SplitParams, sp_image_files, train_count, train_files,
                   SplitOthers>>

\* lines 96-98
CopyValEnd ==
    /\ sp_pc = "copy_val" /\ sp_i >= Len(sp_image_files)
    /\ sp_pc' = "done"
    /\ UNCHANGED <<SplitParams, sp_image_files, train_count, sp_i, train_files,
                   val_files, SplitOthers>>

SplitNext == SplitList \/ CopyTrain \/ CopyTrainEnd \/ CopyVal \/ CopyValEnd

SplitSpec == SplitInit /\ [][SplitNext]_vars

\* the image files of the directory, and those of them among the first k in
\* sorted order
ImageFilesOf(d) == {f \in d : lower(f[2]) = "jpg"}
FirstOf(d, k) == {f \in d : Cardinality({g \in d : g[1] < f[1]}) < k}

C18_SplitIsPartition ==
    sp_pc = "done" =>
        LET imgs == ImageFilesOf(source_files)
            k == floor_ratio(Cardinality(imgs), train_ratio)
        IN /\ train_files = FirstOf(imgs, k)
           /\ val_files = imgs \ FirstOf(imgs, k)
           /\ train_files \cap val_files = {}

\* C18 (as claimed): when split_train_val has processed an attraction with
\* n image files, the train directory holds exactly the first
\* floor(n * train_ratio) of them in sorted order and the validation
\* directory exactly the others, each under its own name and in one set
\* only, and no step changes the source directory.
C18_SplitPartitionsImages ==
    /\ []C18_SplitIsPartition
    /\ [][source_files' = source_files]_vars


(***************************************************************************)
(* RenameSpec: rename_images_in_folder(folder, name), called again with    *)
(* the same name after it returned.                                        *)
(*                                                                         *)
(* The image files of the folder, all of one extension, are known by       *)
(* their sort key: k in 1..LastIndex is the file called name_00k, 0 is a   *)
(* file whose name sorts before every name_..., LastIndex + 1 one whose    *)
(* name sorts after them.  rn_names[k] is the present name of the file    *)
(* listed at position k, rn_prev the folder as the previous call left it.  *)
(***************************************************************************)
LastIndex == MaxFiles + 1
FileKeys == 0..(LastIndex + 1)

\* line 138: the file name given to position index
new_filename(index) == index

\* line 131: image_files.sort()
RECURSIVE sorted_keys(_)
sorted_keys(S) ==
    IF S = {} THEN <<>>
    ELSE LET m == CHOOSE x \in S : \A y \in S : x <= y
         IN <<m>> \o sorted_keys(S \ {m})

\* line 142: the new name is taken by another file
must_skip_never(new, old, present) == FALSE
must_skip(new, old, present) == new \in present /\ new # old

RenameInit ==
    /\ rn_pc = "list"
    /\ rn_folder \in {d \in SUBSET FileKeys : Cardinality(d) <= MaxFiles}
    /\ rn_image_files = <<>> /\ rn_index = 0 /\ renamed_count = 0
    /\ rn_error = FALSE
    /\ rn_call = 1 /\ rn_names = <<>> /\ rn_prev = {}
    /\ FetchIdle /\ SearchIdle /\ OrchIdle /\ GenIdle /\ SplitIdle /\ FilterIdle /\ CountIdle /\ RateIdle /\ JsonIdle /\ OutcomeIdle

RenameOthers == <<fetchVars, searchVars, orchVars, genVars, splitVars, filterVars, countVars, rateVars, jsonVars, outcomeVars>>

\* lines 120-133: the image files are listed and sorted
RenameList ==
    /\ rn_pc = "list"
    /\ rn_image_files' = sorted_keys(rn_folder)
    /\ rn_pc' = IF rn_folder = {} THEN "done" ELSE "loop"
    /\ rn_names' = sorted_keys(rn_folder)
    /\ rn_index' = 1 /\ renamed_count' = 0
    /\ UNCHANGED <<rn_folder, rn_error, rn_call, rn_prev, RenameOthers>>

\* lines 134-150: one iteration; the move succeeds
RenameStep ==
    /\ rn_pc = "loop" /\ rn_index <= Len(rn_image_files)
    /\ LET old == rn_image_files[rn_index]
           new == new_filename(rn_index)
       IN IF must_skip(new, old, rn_folder)
          THEN UNCHANGED <<rn_folder, renamed_count, rn_names>>
          ELSE IF old # new
               THEN /\ rn_folder' = (rn_folder \ {old}) \cup {new}
                    /\ rn_names' = [rn_names EXCEPT ![rn_index] = new]
                    /\ renamed_count' = renamed_count + 1
               ELSE UNCHANGED <<rn_folder, renamed_count, rn_names>>
    /\ rn_index' = rn_index + 1
    /\ UNCHANGED <<rn_pc, rn_image_files, rn_error, rn_call, rn_prev, RenameOthers>>

\* lines 148, 152-153: shutil.move raises; the error is logged
RenameMoveFails ==
    /\ rn_pc = "loop" /\ rn_index <= Len(rn_image_files)
    /\ LET old == rn_image_files[rn_index]
           new == new_filename(rn_index)
       IN ~must_skip(new, old, rn_folder) /\ old # new
    /\ rn_error' = TRUE
    /\ rn_index' = rn_index + 1
    /\ UNCHANGED <<rn_pc, rn_folder, rn_image_files, renamed_count, rn_call,
                   rn_names, rn_prev, RenameOthers>>

\* line 155
RenameReturn ==
    /\ rn_pc = "loop" /\ rn_index > Len(rn_image_files)
    /\ rn_pc' = "done"
    /\ UNCHANGED <<rn_folder, rn_image_files, rn_index, renamed_count, rn_error,
                   rn_call, rn_names, rn_prev, RenameOthers>>

\* the function is called again on the folder, with the same name
RenameAgain ==
    /\ rn_pc = "done" /\ rn_call < MaxRuns
    /\ rn_call' = rn_call + 1
    /\ rn_prev' = rn_folder
    /\ rn_pc' = "list"
    /\ UNCHANGED <<rn_folder, rn_image_files, rn_index, renamed_count, rn_error,
                   rn_names, RenameOthers>>

RenameNext ==
    RenameList \/ RenameStep \/ RenameMoveFails \/ RenameReturn \/ RenameAgain

RenameSpec == RenameInit /\ [][RenameNext]_vars

\* C19 (as claimed): when rename_images_in_folder has returned, no move
\* having failed, the n image files of the folder are called name_001 ...
\* name_n: their indices are exactly 1..n.
C19_IndicesContiguousAfterRename ==
    (rn_pc = "done" /\ ~rn_error) =>
        rn_folder = 1..Len(rn_image_files)


(***************************************************************************)
(* FilterSpec: one call of filter_top_attractions(df, top_n).              *)
(*                                                                         *)
(* df is the search_count column, one entry per row; Null is a missing     *)
(* value (None / NaN).  top_df is the returned frame as the sequence of    *)
(* the row labels it keeps.  top_n is a number of rows (the script passes  *)
(* 1000).  sort_values uses quicksort, which is not stable: rows with      *)
(* equal counts come out in any order.                                     *)
(***************************************************************************)
Null == -1
Counts == {Null} \cup (0..MaxCount)

notna(x) == x # Null

\* line 204: the rows kept by the boolean mask
valid_rows(frame) == {r \in DOMAIN frame : notna(frame[r]) /\ frame[r] > 0}

\* line 207: sort_values('search_count', ascending=False): whether a row of
\* count x may come before a row of count y
sorts_before_ascending(x, y) == x <= y
sorts_before(x, y) == x >= y

sort_values(frame, kept) ==
    {q \in [1..Cardinality(kept) -> kept] :
        /\ \A j, k \in DOMAIN q : j # k => q[j] # q[k]
        /\ \A j \in DOMAIN q : j < Len(q) => sorts_before(frame[q[j]], frame[q[j + 1]])}

\* line 210: DataFrame.head(n) for n >= 0
head(q, n) == SubSeq(q, 1, Min(n, Len(q)))

filter_top_attractions(frame, n) ==
    {head(q, n) : q \in sort_values(frame, valid_rows(frame))}

FilterInit ==
    /\ ft_pc = "call"
    /\ df \in SeqsUpTo(Counts, MaxRows)
    /\ top_n \in 0..MaxRows
    /\ top_df = <<>>
    /\ FetchIdle /\ SearchIdle /\ OrchIdle /\ GenIdle /\ SplitIdle /\ RenameIdle /\ CountIdle /\ RateIdle /\ JsonIdle /\ OutcomeIdle

FilterOthers == <<fetchVars, searchVars, orchVars, genVars, splitVars, renameVars, countVars, rateVars, jsonVars, outcomeVars>>

FilterCall ==
    /\ ft_pc = "call"
    /\ top_df' \in filter_top_attractions(df, top_n)
    /\ ft_pc' = "returned"
    /\ UNCHANGED <<df, top_n, FilterOthers>>

FilterNext == FilterCall

FilterSpec == FilterInit /\ [][FilterNext]_vars

Returned == {top_df[j] : j \in DOMAIN top_df}

\* C20: the frame filter_top_attractions returns has at most top_n rows,
\* each with a non-null search_count above 0, in non-increasing order of
\* search_count, and no row left out with a positive search_count has a
\* search_count strictly greater than that of a returned row.
C20_TopRowsByCount ==
    ft_pc = "returned" =>
        /\ Len(top_df) <= top_n
        /\ \A j \in DOMAIN top_df : notna(df[top_df[j]]) /\ df[top_df[j]] > 0
        /\ \A j \in DOMAIN top_df :
              j < Len(top_df) => df[top_df[j]] >= df[top_df[j + 1]]
        /\ \A r \in DOMAIN df \ Returned :
              (notna(df[r]) /\ df[r] > 0)
                  => \A j \in DOMAIN top_df : df[r] <= df[top_df[j]]

\* a call that returned top_n rows of different counts and left out a
\* positive row and a zero or null row
C20_Witness ==
    /\ ft_pc = "returned" /\ Len(top_df) = top_n /\ top_n >= 2
    /\ df[top_df[1]] > df[top_df[2]]
    /\ \E r \in DOMAIN df \ Returned : df[r] > 0
    /\ \E r \in DOMAIN df : df[r] = 0 \/ df[r] = Null


(***************************************************************************)
(* CountSpec: GoogleSearchCounter.search_attractions called up to MaxRuns  *)
(* times on one table, with the get_search_count call of each row.         *)
(*                                                                         *)
(* attractions_df is the search_count column (Null for a missing value),   *)
(* entry_df its value when the current search_attractions call began,      *)
(* lookups[r] the number of get_search_count calls made for row r in the   *)
(* current call.  c_log is the history of the current get_search_count     *)
(* call: requests, failures, sleeps (n is the number of seconds) and the   *)
(* response (n is its totalResults, Null when absent).                     *)
(* json_error_is_request_exception is the installed requests library:      *)
(* since requests 2.27 response.json() raises                              *)
(* requests.exceptions.JSONDecodeError, a RequestException; older versions *)
(* raise json.JSONDecodeError (a ValueError).                              *)
(***************************************************************************)
Event(e, k) == [ev |-> e, n |-> k]

\* line 95: time.sleep(2 ** attempt)
backoff(k) == 2 ^ k

\* lines 91-96: the handler of RequestException
after_request_exception(log, k) ==
    IF k < MAX_RETRIES - 1
    THEN log \o <<Event("request_error", k + 1), Event("sleep", backoff(k))>>
    ELSE Append(log, Event("request_error", k + 1))

\* lines 84-89: the value returned for a response
reported_total(total) == IF total # Null THEN total ELSE 0

TableRows == 1..MaxTableRows

CountInit ==
    /\ sa_pc = "idle" /\ sa_call = 0 /\ sa_idx = 0
    /\ attractions_df \in SeqsUpTo(Counts, MaxTableRows)
    /\ entry_df = <<>> /\ lookups = [r \in TableRows |-> 0]
    /\ json_error_is_request_exception \in BOOLEAN
    /\ c_pc = "idle" /\ attempt = 0 /\ c_log = <<>> /\ c_result = Null
    /\ FetchIdle /\ SearchIdle /\ OrchIdle /\ GenIdle /\ SplitIdle /\ RenameIdle /\ FilterIdle /\ RateIdle /\ JsonIdle /\ OutcomeIdle

CountOthers == <<fetchVars, searchVars, orchVars, genVars, splitVars, renameVars, filterVars, rateVars, jsonVars, outcomeVars>>

SaVars == <<sa_pc, sa_call, sa_idx, attractions_df, entry_df, lookups>>

\* lines 118-126: search_attractions is entered
SearchAttractionsStart ==
    /\ sa_pc \in {"idle", "returned"} /\ sa_call < MaxRuns
    /\ sa_call' = sa_call + 1
    /\ entry_df' = attractions_df
    /\ lookups' = [r \in TableRows |-> 0]
    /\ sa_idx' = 1 /\ sa_pc' = "row"
    /\ UNCHANGED <<attractions_df, json_error_is_request_exception, c_pc, attempt,
                   c_log, c_result, CountOthers>>

\* lines 128-132: the row already has a search_count
SkipProcessedRow ==
    /\ sa_pc = "row" /\ sa_idx <= Len(attractions_df)
    /\ notna(attractions_df[sa_idx])
    /\ sa_idx' = sa_idx + 1
    /\ UNCHANGED <<sa_pc, sa_call, attractions_df, entry_df, lookups,
                   json_error_is_request_exception, c_pc, attempt, c_log, c_result,
                   CountOthers>>

\* lines 134-141 and 70-77: get_search_count is called for the row
CallGetSearchCount ==
    /\ sa_pc = "row" /\ sa_idx <= Len(attractions_df)
    /\ ~notna(attractions_df[sa_idx])
    /\ lookups' = [lookups EXCEPT ![sa_idx] = @ + 1]
    /\ sa_pc' = "lookup"
    /\ c_pc' = "try" /\ attempt' = 0 /\ c_log' = <<>> /\ c_result' = Null
    /\ UNCHANGED <<sa_call, sa_idx, attractions_df, entry_df,
                   json_error_is_request_exception, CountOthers>>

\* lines 77-80: one attempt sends its request
CountSend ==
    /\ c_pc = "try" /\ attempt < MAX_RETRIES
    /\ c_log' = Append(c_log, Event("request", attempt + 1))
    /\ c_pc' = "waiting"
    /\ UNCHANGED <<SaVars, json_error_is_request_exception, attempt, c_result,
                   CountOthers>>

\* lines 82-89: the response is decoded and its total returned
CountResponse ==
    /\ c_pc = "waiting"
    /\ \E total \in Counts :
          /\ c_log' = Append(c_log, Event("response", total))
          /\ c_result' = reported_total(total)
    /\ c_pc' = "returned"
    /\ UNCHANGED <<SaVars, json_error_is_request_exception, attempt, CountOthers>>

\* lines 91-96: session.get or raise_for_status raises
CountRequestFails ==
    /\ c_pc = "waiting"
    /\ c_log' = after_request_exception(c_log, attempt)
    /\ attempt' = attempt + 1
    /\ c_pc' = "try"
    /\ UNCHANGED <<SaVars, json_error_is_request_exception, c_result, CountOthers>>

\* line 82: response.json() raises on a body that is not JSON; the clause
\* that catches it depends on the class the library raises
CountJsonFails ==
    /\ c_pc = "waiting"
    /\ IF json_error_is_request_exception
       THEN /\ c_log' = after_request_exception(
                            Append(c_log, Event("parse_error", attempt + 1)), attempt)
            /\ attempt' = attempt + 1
            /\ c_pc' = "try"
            /\ UNCHANGED c_result
       ELSE /\ c_log' = Append(c_log, Event("parse_error", attempt + 1))
            /\ c_result' = Null
            /\ c_pc' = "returned"
            /\ UNCHANGED attempt
    /\ UNCHANGED <<SaVars, json_error_is_request_exception, CountOthers>>

\* lines 86, 98-101: int(total_results) raises ValueError; break
CountValueFails ==
    /\ c_pc = "waiting"
    /\ c_log' = Append(c_log, Event("parse_error", attempt + 1))
    /\ c_result' = Null
    /\ c_pc' = "returned"
    /\ UNCHANGED <<SaVars, json_error_is_request_exception, attempt, CountOthers>>

\* lines 77, 103: the attempts are used up
CountExhausted ==
    /\ c_pc = "try" /\ attempt >= MAX_RETRIES
    /\ c_result' = Null
    /\ c_pc' = "returned"
    /\ UNCHANGED <<SaVars, json_error_is_request_exception, attempt, c_log,
                   CountOthers>>

\* line 147 with the value kept as None
store_none_as_null(res) == res
\* lines 143-147: the value stored for the result of the lookup
store_result(res) == IF res # Null THEN res ELSE 0

\* lines 143-155: the count is written to the row
StoreCount ==
    /\ sa_pc = "lookup" /\ c_pc = "returned"
    /\ attractions_df' = [attractions_df EXCEPT ![sa_idx] = store_result(c_result)]
    /\ sa_idx' = sa_idx + 1
    /\ sa_pc' = "row" /\ c_pc' = "idle"
    /\ UNCHANGED <<sa_call, entry_df, lookups, json_error_is_request_exception,
                   attempt, c_log, c_result, CountOthers>>

\* lines 157-159
SearchAttractionsReturn ==
    /\ sa_pc = "row" /\ sa_idx > Len(attractions_df)
    /\ sa_pc' = "returned"
    /\ UNCHANGED <<sa_call, sa_idx, attractions_df, entry_df, lookups,
                   json_error_is_request_exception, c_pc, attempt, c_log, c_result,
                   CountOthers>>

CountNext ==
    \/ SearchAttractionsStart \/ SkipProcessedRow \/ CallGetSearchCount
    \/ CountSend \/ CountResponse \/ CountRequestFails \/ CountJsonFails
    \/ CountValueFails \/ CountExhausted \/ StoreCount \/ SearchAttractionsReturn

CountSpec == CountInit /\ [][CountNext]_vars

EventsOf(e) == {k \in DOMAIN c_log : c_log[k].ev = e}

\* C21 (as claimed): the retry policy of get_search_count.  At most
\* MAX_RETRIES requests are sent; a request exception on attempt i below
\* MAX_RETRIES is followed by a sleep of 2^(i-1) seconds, and no sleep
\* follows the last attempt; a failure to parse the response is the last
\* thing that happens in the call, with no sleep and no request after it;
\* a returned call gives None exactly when no response was obtained, and
\* otherwise the total of the response, 0 when it has none.
C21_RetryPolicy ==
    /\ Cardinality(EventsOf("request")) <= MAX_RETRIES
    /\ \A k \in EventsOf("request_error") :
          IF c_log[k].n < MAX_RETRIES
          THEN k < Len(c_log) /\ c_log[k + 1] = Event("sleep", 2 ^ (c_log[k].n - 1))
          ELSE k = Len(c_log)
    /\ \A k \in EventsOf("sleep") : k > 1 /\ c_log[k - 1].ev = "request_error"
    /\ \A k \in EventsOf("parse_error") : k = Len(c_log)
    /\ c_pc = "returned" =>
          IF EventsOf("response") = {}
          THEN c_result = Null
          ELSE c_result = reported_total(c_log[Len(c_log)].n)


C26_RowsLookedUpOnce ==
    sa_pc \in {"row", "lookup", "returned"} =>
        \A r \in DOMAIN attractions_df :
            /\ lookups[r] <= 1
            /\ notna(entry_df[r]) => lookups[r] = 0 /\ attractions_df[r] = entry_df[r]
            /\ sa_pc = "returned" =>
                  /\ ~notna(entry_df[r]) => lookups[r] = 1
                  /\ notna(attractions_df[r])
            /\ sa_call >= 2 => lookups[r] = 0

\* C26: resume in search_attractions.  A row that has a search_count on
\* entry causes no get_search_count call and keeps its value; every other
\* row gets exactly one call and is set to the count returned, or to 0 when
\* the call returned None; on return every row has a search_count, and a
\* later call on the same table looks no row up again.
C26_ResumeSkipsProcessedRows ==
    /\ []C26_RowsLookedUpOnce
    /\ [][(sa_pc = "lookup" /\ sa_pc' = "row")
            => attractions_df' =
                  [attractions_df EXCEPT
                      ![sa_idx] = IF c_result # Null THEN c_result ELSE 0]]_vars

\* a second call returned on a table whose first call found one row already
\* counted and one whose lookup failed
C26_Witness ==
    /\ sa_pc = "returned" /\ sa_call = 2
    /\ Len(attractions_df) = 2
    /\ c_result = Null /\ c_log # <<>>
    /\ attractions_df[1] > 0 /\ attractions_df[2] = 0


(***************************************************************************)
(* The download loops of the Custom Search and Flickr scrapers.            *)
(***************************************************************************)
\* the destination index the loop computes for the candidate at hand
NextIndex == existing_images + downloaded_count + 1

\* a step of the loop that stays in the loop of the same attraction
LoopIteration ==
    /\ scraper \in {"cse", "flickr"}
    /\ pc = "loop" /\ pc' = "loop" /\ a' = a /\ run' = run

\* a step in which download_image is called and returns False
FailedDownload ==
    /\ LoopIteration
    /\ net'.download = net.download + 1
    /\ downloaded_count' = downloaded_count

\* C22 (as claimed): no candidate-level retry in the Flickr and Custom
\* Search loops.  Every iteration consumes one candidate, so a candidate is
\* handed to download_image at most once; after a failed download with a
\* candidate left, the next iteration computes the same destination index
\* and hands the next candidate to download_image (the path is free, as the
\* Custom Search loop skips the candidate otherwise); and once the list is
\* used up no download_image call follows for the attraction.
C22_NoCandidateRetry ==
    /\ [][LoopIteration =>
             /\ i' = i + 1
             /\ net'.download \in {net.download, net.download + 1}]_vars
    /\ [][(FailedDownload /\ i' < Len(image_urls)) =>
             /\ NextIndex' = NextIndex
             /\ scraper = "cse" => NextIndex' \notin dir'[a]]_vars
    /\ [][(scraper \in {"cse", "flickr"} /\ pc = "loop" /\ i >= Len(image_urls))
             => net'.download <= net.download]_vars


\* the destination index of the candidate at hand, per scraper
DestIndex ==
    CASE scraper = "cse" -> cse_index(existing_images, downloaded_count, i + 1)
      [] scraper = "flickr" -> flickr_index(existing_images, downloaded_count, i + 1)
      [] scraper = "maps" -> maps_index(existing_images, downloaded_count, i + 1)

\* a step in which download_image is called and returns
DownloadCall ==
    /\ pc = "loop" /\ pc' = "loop" /\ a' = a /\ run' = run
    /\ net'.download = net.download + 1

\* C23 (as claimed): a filename collision never damages stored data.  In
\* each scraper, from any initial directory (gaps included), download_image
\* is never called on a destination path that already exists, and no step
\* removes a file from a directory: every file present before a run is
\* present and unchanged after it.
C23_CollisionKeepsFiles ==
    /\ [][DownloadCall => DestIndex \notin dir[a]]_vars
    /\ [][\A x \in Attractions : dir[x] \subseteq dir'[x]]_vars


\* C24 (as claimed): when image_scraper.download_image, called on a path
\* that holds no file, returns False (HTTP error, timeout, connection reset
\* at any point, the file already opened and partly written included), no
\* file exists at the destination afterwards.
C24_MapsFailureLeavesNoFile ==
    (f_pc = "returned" /\ f_scraper = "maps" /\ ~f_before.exists
        /\ f_result.ret = "False")
        => ~f_result.file.exists


(***************************************************************************)
(* RateSpec: one run of google_search_image_scraper.process_attractions,   *)
(* with searcher.search_images in line, as the sequence of its outbound    *)
(* HTTP requests and its time.sleep calls.                                 *)
(*                                                                         *)
(* rl_files[x] is the set of indices of the .jpg files of attraction x's   *)
(* directory, rl_urls is len(image_urls), and rl_last is the last of the   *)
(* two kinds of event that happened: "request", "sleep", or "none" before  *)
(* the first of them.                                                      *)
(***************************************************************************)
RateInit ==
    /\ rl_pc = "row" /\ rl_a = 1
    /\ rl_files \in [Attractions -> SUBSET (1..(TargetCount + 1))]
    /\ rl_existing = 0 /\ rl_urls = 0 /\ rl_start = 1 /\ rl_i = 0
    /\ rl_downloaded = 0 /\ rl_last = "none"
    /\ FetchIdle /\ SearchIdle /\ OrchIdle /\ GenIdle /\ SplitIdle /\ RenameIdle /\ FilterIdle /\ CountIdle /\ JsonIdle /\ OutcomeIdle

RateOthers == <<fetchVars, searchVars, orchVars, genVars, splitVars, renameVars, filterVars, countVars, jsonVars, outcomeVars>>

\* `continue`, or the end of the loop body: the next row of the table
NextRow ==
    /\ rl_a' = rl_a + 1 /\ rl_pc' = "row"
    /\ rl_existing' = 0 /\ rl_urls' = 0 /\ rl_start' = 1 /\ rl_i' = 0
    /\ rl_downloaded' = 0

\* lines 260-283: the directory is made and counted; with enough images the
\* row is skipped with `continue`, otherwise search_images is entered
RateRow ==
    /\ rl_pc = "row" /\ rl_a <= NumAttractions
    /\ LET existing == count_images_in_directory(rl_files[rl_a]) IN
       IF cse_enough(existing)
       THEN NextRow
       ELSE /\ rl_existing' = existing
            /\ rl_urls' = 0 /\ rl_start' = 1 /\ rl_pc' = "page"
            /\ UNCHANGED <<rl_a, rl_i, rl_downloaded>>
    /\ UNCHANGED <<rl_files, rl_last, RateOthers>>

\* lines 185-203: the while condition holds, the page request is sent
RateSendPage ==
    /\ rl_pc = "page"
    /\ search_loop_condition(rl_urls, rl_start, cse_target)
    /\ rl_pc' = "page_wait" /\ rl_last' = "request"
    /\ UNCHANGED <<rl_a, rl_files, rl_existing, rl_urls, rl_start, rl_i,
                   rl_downloaded, RateOthers>>

\* lines 205-218: a page with items, v of them valid links; then
\* time.sleep(REQUEST_DELAY)
RatePageItems ==
    /\ rl_pc = "page_wait"
    /\ \E v \in 0..MaxCands : rl_urls' = rl_urls + v
    /\ rl_start' = next_start(rl_start)
    /\ rl_last' = "sleep" /\ rl_pc' = "page"
    /\ UNCHANGED <<rl_a, rl_files, rl_existing, rl_i, rl_downloaded, RateOthers>>

\* lines 208-210 and 220-226: a page without items, a failed request or an
\* answer that cannot be parsed: `break`, without a sleep
RatePageBreak ==
    /\ rl_pc = "page_wait"
    /\ rl_pc' = "urls"
    /\ UNCHANGED <<rl_a, rl_files, rl_existing, rl_urls, rl_start, rl_i,
                   rl_downloaded, rl_last, RateOthers>>

\* lines 185, 228-229: the while condition fails
RateSearchReturns ==
    /\ rl_pc = "page"
    /\ ~search_loop_condition(rl_urls, rl_start, cse_target)
    /\ rl_pc' = "urls"
    /\ UNCHANGED <<rl_a, rl_files, rl_existing, rl_urls, rl_start, rl_i,
                   rl_downloaded, rl_last, RateOthers>>

\* lines 284-287: no candidate, `continue`
RateNoImages ==
    /\ rl_pc = "urls" /\ rl_urls = 0
    /\ NextRow
    /\ UNCHANGED <<rl_files, rl_last, RateOthers>>

\* lines 289-291: the download loop is entered
RateStartLoop ==
    /\ rl_pc = "urls" /\ rl_urls > 0
    /\ rl_downloaded' = 0 /\ rl_i' = 0 /\ rl_pc' = "loop"
    /\ UNCHANGED <<rl_a, rl_files, rl_existing, rl_urls, rl_start, rl_last,
                   RateOthers>>

\* lines 292-302: the path exists, `continue`
RateSkipExisting ==
    /\ rl_pc = "loop" /\ rl_i < rl_urls
    /\ ~cse_enough(rl_existing + rl_downloaded)
    /\ cse_index(rl_existing, rl_downloaded, rl_i + 1) \in rl_files[rl_a]
    /\ rl_downloaded' = rl_downloaded + 1 /\ rl_i' = rl_i + 1
    /\ UNCHANGED <<rl_pc, rl_a, rl_files, rl_existing, rl_urls, rl_start,
                   rl_last, RateOthers>>

\* lines 304-305 and download_image lines 105-107: the image request is sent
RateSendDownload ==
    /\ rl_pc = "loop" /\ rl_i < rl_urls
    /\ ~cse_enough(rl_existing + rl_downloaded)
    /\ cse_index(rl_existing, rl_downloaded, rl_i + 1) \notin rl_files[rl_a]
    /\ rl_pc' = "download_wait" /\ rl_last' = "request"
    /\ UNCHANGED <<rl_a, rl_files, rl_existing, rl_urls, rl_start, rl_i,
                   rl_downloaded, RateOthers>>

\* lines 305-311: download_image returns; then time.sleep(0.5)
RateDownloadReturns ==
    /\ rl_pc = "download_wait"
    /\ LET idx == cse_index(rl_existing, rl_downloaded, rl_i + 1) IN
       \E o \in Outcomes["cse", "any", FALSE] :
           /\ rl_files' = [rl_files EXCEPT ![rl_a] =
                              IF o.exists THEN @ \cup {idx} ELSE @]
           /\ rl_downloaded' =
                  IF o.ret = "True" THEN rl_downloaded + 1 ELSE rl_downloaded
    /\ rl_i' = rl_i + 1
    /\ rl_last' = "sleep" /\ rl_pc' = "loop"
    /\ UNCHANGED <<rl_a, rl_existing, rl_urls, rl_start, RateOthers>>

\* lines 292-293, 313-315, 324: the loop is left; time.sleep(REQUEST_DELAY)
RateLoopEnd ==
    /\ rl_pc = "loop"
    /\ rl_i >= rl_urls \/ cse_enough(rl_existing + rl_downloaded)
    /\ NextRow
    /\ rl_last' = "sleep"
    /\ UNCHANGED <<rl_files, RateOthers>>

\* lines 326-327: the table is used up
RateDone ==
    /\ rl_pc = "row" /\ rl_a > NumAttractions
    /\ rl_pc' = "done"
    /\ UNCHANGED <<rl_a, rl_files, rl_existing, rl_urls, rl_start, rl_i,
                   rl_downloaded, rl_last, RateOthers>>

RateNext ==
    \/ RateRow \/ RateSendPage \/ RatePageItems \/ RatePageBreak
    \/ RateSearchReturns \/ RateNoImages \/ RateStartLoop
    \/ RateSkipExisting \/ RateSendDownload \/ RateDownloadReturns
    \/ RateLoopEnd \/ RateDone

RateSpec == RateInit /\ [][RateNext]_vars

\* C25 (as claimed): rate limiting in google_search_image_scraper.  Any two
\* consecutive outbound HTTP requests of a run, search page requests and
\* image downloads alike, are separated by at least one sleep: a request is
\* never sent while the last event was a request.
C25_RequestsSeparatedBySleep ==
    [][rl_pc' \in {"page_wait", "download_wait"} => rl_last # "request"]_vars


(***************************************************************************)
(* JsonSpec: json_downloader.download_attraction_json, run several times   *)
(* over the same `attractions` directory.                                  *)
(*                                                                         *)
(* unique_ids is the identifier column of the table, one entry per row     *)
(* (the code does not remove duplicates).  jd_files[x] is the file         *)
(* attractions/<x>.json: absent, or written by run `by` (0: present       *)
(* before the first run), completely or not.  jd_requests[x] counts the    *)
(* requests of the current run for x, jd_before is the set of identifiers  *)
(* that had a file when the current run began.                             *)
(***************************************************************************)
JsonIds == 1..2
Absent == [by |-> -1, whole |-> FALSE]
Written(r, w) == [by |-> r, whole |-> w]

\* line 31: output_file.exists()
output_file_exists_never(f) == FALSE
output_file_exists(f) == f # Absent

JsonInit ==
    /\ jd_pc = "idle" /\ jd_run = 0 /\ jd_pos = 0
    /\ unique_ids \in SeqsUpTo(JsonIds, MaxJsonRows)
    /\ jd_files \in [JsonIds -> {Absent, Written(0, TRUE)}]
    /\ jd_requests = [x \in JsonIds |-> 0]
    /\ jd_before = {} /\ jd_resp = "none"
    /\ FetchIdle /\ SearchIdle /\ OrchIdle /\ GenIdle /\ SplitIdle /\ RenameIdle /\ FilterIdle /\ CountIdle /\ RateIdle /\ OutcomeIdle

JsonOthers == <<fetchVars, searchVars, orchVars, genVars, splitVars, renameVars, filterVars, countVars, rateVars, outcomeVars>>

\* lines 8-23: the directory is made, the table read, the loop entered
JsonStart ==
    /\ jd_pc \in {"idle", "done"} /\ jd_run < MaxRuns
    /\ jd_run' = jd_run + 1 /\ jd_pos' = 1 /\ jd_pc' = "loop"
    /\ jd_requests' = [x \in JsonIds |-> 0]
    /\ jd_before' = {x \in JsonIds : jd_files[x] # Absent}
    /\ UNCHANGED <<unique_ids, jd_files, jd_resp, JsonOthers>>

\* lines 23-32: the file exists, `continue`
JsonSkip ==
    /\ jd_pc = "loop" /\ jd_pos <= Len(unique_ids)
    /\ output_file_exists(jd_files[unique_ids[jd_pos]])
    /\ jd_pos' = jd_pos + 1
    /\ UNCHANGED <<jd_pc, jd_run, unique_ids, jd_files, jd_requests,
                   jd_before, jd_resp, JsonOthers>>

\* lines 34-37: requests.get(url) and raise_for_status, whose outcome is
\* the server's
JsonRequest ==
    /\ jd_pc = "loop" /\ jd_pos <= Len(unique_ids)
    /\ ~output_file_exists(jd_files[unique_ids[jd_pos]])
    /\ jd_requests' = [jd_requests EXCEPT ![unique_ids[jd_pos]] = @ + 1]
    /\ jd_resp' \in {"ok", "error"}
    /\ jd_pc' = "requested"
    /\ UNCHANGED <<jd_run, jd_pos, unique_ids, jd_files, jd_before, JsonOthers>>

\* lines 40-44: the answer is written to the file, then time.sleep(0.5)
JsonSave ==
    /\ jd_pc = "requested" /\ jd_resp = "ok"
    /\ jd_files' = [jd_files EXCEPT ![unique_ids[jd_pos]] = Written(jd_run, TRUE)]
    /\ jd_pos' = jd_pos + 1 /\ jd_pc' = "loop" /\ jd_resp' = "none"
    /\ UNCHANGED <<jd_run, unique_ids, jd_requests, jd_before, JsonOthers>>

\* lines 40-41 and 48-49: open or f.write raises; the file is not there, or
\* it has been created and holds part of the text
JsonSaveFails ==
    /\ jd_pc = "requested" /\ jd_resp = "ok"
    /\ \E f \in {Absent, Written(jd_run, FALSE)} :
           jd_files' = [jd_files EXCEPT ![unique_ids[jd_pos]] = f]
    /\ jd_pos' = jd_pos + 1 /\ jd_pc' = "loop" /\ jd_resp' = "none"
    /\ UNCHANGED <<jd_run, unique_ids, jd_requests, jd_before, JsonOthers>>

\* lines 46-47: requests.exceptions.RequestException is printed
JsonRequestFails ==
    /\ jd_pc = "requested" /\ jd_resp = "error"
    /\ jd_pos' = jd_pos + 1 /\ jd_pc' = "loop" /\ jd_resp' = "none"
    /\ UNCHANGED <<jd_run, unique_ids, jd_files, jd_requests, jd_before,
                   JsonOthers>>

\* line 23: the column is used up
JsonReturn ==
    /\ jd_pc = "loop" /\ jd_pos > Len(unique_ids)
    /\ jd_pc' = "done"
    /\ UNCHANGED <<jd_run, jd_pos, unique_ids, jd_files, jd_requests,
                   jd_before, jd_resp, JsonOthers>>

JsonNext ==
    \/ JsonStart \/ JsonSkip \/ JsonRequest \/ JsonSave \/ JsonSaveFails
    \/ JsonRequestFails \/ JsonReturn

JsonSpec == JsonInit /\ [][JsonNext]_vars

\* the rows of the table that name identifier x
RowsNaming(x) == {k \in DOMAIN unique_ids : unique_ids[k] = x}

\* An existing file gets no request and is never modified; a file appears
\* only in the step that handles a successful response; a failed request
\* creates no file and the loop goes on with the next row.
JsonStoredFilesKept ==
    /\ [][\A x \in JsonIds :
            /\ jd_files[x] # Absent => jd_files'[x] = jd_files[x]
            /\ jd_requests'[x] > jd_requests[x] => jd_files[x] = Absent
            /\ jd_files'[x] # jd_files[x] =>
                   jd_pc = "requested" /\ jd_resp = "ok" /\ unique_ids[jd_pos] = x]_vars
    /\ [][(jd_pc = "requested" /\ jd_resp = "error") =>
            /\ jd_files' = jd_files
            /\ jd_pc' = "loop" /\ jd_pos' = jd_pos + 1]_vars

\* C27 (as claimed): an identifier whose file exists gets no request and its
\* file is not modified; every other identifier of the table gets exactly
\* one request per run; a file is created only after a successful response,
\* a failed request creates no file and does not stop the loop; no run
\* overwrites a stored file.
C27_OneRequestPerMissingId ==
    /\ JsonStoredFilesKept
    /\ [](jd_pc = "done" =>
            \A x \in JsonIds :
                jd_requests[x] =
                    IF x \in jd_before \/ RowsNaming(x) = {} THEN 0 ELSE 1)

\* C27 (amended): as claimed, except that the requests are per row: an
\* identifier without a file gets one request for each row naming it that
\* is reached while the file is still missing, so at least one and at most
\* as many as it has rows, and exactly one when a single row names it.
C27_OneRequestPerMissingRow ==
    /\ JsonStoredFilesKept
    /\ [](jd_pc = "done" =>
            \A x \in JsonIds :
                IF x \in jd_before \/ RowsNaming(x) = {}
                THEN jd_requests[x] = 0
                ELSE /\ jd_requests[x] >= 1
                     /\ jd_requests[x] <= Cardinality(RowsNaming(x)))

C27_Witness ==
    /\ jd_pc = "done" /\ jd_run = 2
    /\ \E x, y \in JsonIds :
        /\ x # y
        /\ jd_files[x] = Written(1, TRUE) /\ jd_requests[x] = 0
        /\ RowsNaming(x) # {}
        /\ jd_requests[y] = 2 /\ jd_files[y] = Written(2, TRUE)


\* the listed files whose name is no longer the one they were listed under
NameChanged == {k \in DOMAIN rn_names : rn_names[k] # rn_image_files[k]}

\* C28: rename_images_in_folder never loses an image.  No move lands on a
\* name that is taken, so the listed files keep distinct names, the folder
\* holds exactly these files and as many as were listed; and the returned
\* count is the number of files whose name changed.
C28_RenameKeepsEveryImage ==
    rn_pc \in {"loop", "done"} =>
        /\ \A j, k \in DOMAIN rn_names : j # k => rn_names[j] # rn_names[k]
        /\ rn_folder = {rn_names[k] : k \in DOMAIN rn_names}
        /\ Cardinality(rn_folder) = Len(rn_image_files)
        /\ renamed_count = Cardinality(NameChanged)

C28_Witness ==
    /\ rn_pc = "done" /\ rn_call = 1
    /\ Len(rn_image_files) = MaxFiles
    /\ renamed_count = 2
    /\ \E k \in DOMAIN rn_names :
           rn_names[k] = rn_image_files[k] /\ rn_names[k] # new_filename(k)

\* C29 (as claimed): rename_images_in_folder is idempotent.  A second call
\* with the same name directly after a first call, no move having failed
\* in either, renames no file (returns 0) and leaves the set of file names
\* as the first call left it.
C29_SecondCallRenamesNothing ==
    (rn_pc = "done" /\ rn_call = 2 /\ ~rn_error) =>
        renamed_count = 0 /\ rn_folder = rn_prev


(***************************************************************************)
(* OutcomeSpec: one call of split_train_val(source_dir, train_dir,         *)
(* val_dir), as to what it returns and which directories it makes.         *)
(*                                                                         *)
(* attraction_dirs is the source directory's list of attraction folders,   *)
(* each given by len(image_files), the number of image files the globs     *)
(* find in it; it is empty when the source directory does not exist.       *)
(* made is the set of output directories the call has created, so_ret      *)
(* what the call did at its end: returned True or False, or raised.        *)
(***************************************************************************)
OutcomeInit ==
    /\ so_pc = "call"
    /\ source_exists \in BOOLEAN
    /\ train_exists \in BOOLEAN /\ val_exists \in BOOLEAN
    /\ attraction_dirs \in SeqsUpTo(0..MaxFiles, NumAttractions)
    /\ ~source_exists => attraction_dirs = <<>>
    /\ made = {} /\ so_k = 0 /\ total_attractions = 0
    /\ total_train_images = 0 /\ total_val_images = 0
    /\ so_ret = "none"
    /\ FetchIdle /\ SearchIdle /\ OrchIdle /\ GenIdle /\ SplitIdle /\ RenameIdle /\ FilterIdle /\ CountIdle /\ RateIdle /\ JsonIdle

OutcomeOthers == <<fetchVars, searchVars, orchVars, genVars, splitVars, renameVars, filterVars, countVars, rateVars, jsonVars>>

OutcomeParams == <<source_exists, attraction_dirs>>

\* lines 29-31: train_path.mkdir and val_path.mkdir, exist_ok=True
MakeOutputDirs ==
    /\ so_pc = "call"
    /\ made' = {d \in {"train", "val"} :
                   (d = "train" /\ ~train_exists) \/ (d = "val" /\ ~val_exists)}
    /\ train_exists' = TRUE /\ val_exists' = TRUE
    /\ so_pc' = "check"
    /\ UNCHANGED <<OutcomeParams, so_k, total_attractions, total_train_images,
                   total_val_images, so_ret, OutcomeOthers>>

\* lines 33-35: the source directory does not exist
SourceMissing ==
    /\ so_pc = "check" /\ ~source_exists
    /\ so_ret' = "False" /\ so_pc' = "ended"
    /\ UNCHANGED <<OutcomeParams, train_exists, val_exists, made, so_k,
                   total_attractions, total_train_images, total_val_images,
                   OutcomeOthers>>

\* lines 37-48: the totals are zeroed, the loop entered
EnterLoop ==
    /\ so_pc = "check" /\ source_exists
    /\ so_k' = 1 /\ total_attractions' = 0
    /\ total_train_images' = 0 /\ total_val_images' = 0
    /\ so_pc' = "loop"
    /\ UNCHANGED <<OutcomeParams, train_exists, val_exists, made, so_ret,
                   OutcomeOthers>>

\* lines 48-98: one attraction folder; without image files, `continue`
SplitAttraction ==
    /\ so_pc = "loop" /\ so_k <= Len(attraction_dirs)
    /\ LET total_images == attraction_dirs[so_k]
           count == floor_ratio(total_images, 9)
       IN IF total_images = 0
          THEN UNCHANGED <<total_attractions, total_train_images, total_val_images>>
          ELSE /\ total_attractions' = total_attractions + 1
               /\ total_train_images' = total_train_images + count
               /\ total_val_images' = total_val_images + (total_images - count)
    /\ so_k' = so_k + 1
    /\ UNCHANGED <<OutcomeParams, so_pc, train_exists, val_exists, made, so_ret,
                   OutcomeOthers>>

\* lines 100-109: the summary; line 107 divides by the number of images
PrintSummary ==
    /\ so_pc = "loop" /\ so_k > Len(attraction_dirs)
    /\ so_ret' = IF total_train_images + total_val_images = 0
                 THEN "ZeroDivisionError" ELSE "True"
    /\ so_pc' = "ended"
    /\ UNCHANGED <<OutcomeParams, train_exists, val_exists, made, so_k,
                   total_attractions, total_train_images, total_val_images,
                   OutcomeOthers>>

OutcomeNext ==
    MakeOutputDirs \/ SourceMissing \/ EnterLoop \/ SplitAttraction \/ PrintSummary

OutcomeSpec == OutcomeInit /\ [][OutcomeNext]_vars

\* C30 (as claimed): split_train_val returns False without creating or
\* changing any directory when the source directory does not exist, and
\* for every existing source directory, one without any attraction folder
\* or image file included, it completes and returns True without raising.
C30_ResultOfSplit ==
    so_pc = "ended" =>
        IF source_exists
        THEN so_ret = "True"
        ELSE so_ret = "False" /\ made = {}

====
